---- MODULE Spec2Model ----
(***************************************************************************)
(* A model of the language-service integration core of Civet:              *)
(*   - the virtual-file host TSHost of lsp/source/lib/typescript-service   *)
(*     (document registry, snapshot cache, file metadata, project version) *)
(*   - the source-map engine of source/sourcemap.civet (remapPosition,     *)
(*     composeLines, the base64-VLQ codec)                                 *)
(* Each subsystem has its own variables and its own specification; a       *)
(* specification leaves the other subsystems' variables at their idle      *)
(* values.                                                                 *)
(***************************************************************************)
EXTENDS Integers, Sequences, FiniteSets, TLC

(***************************************************************************)
(* Bounds of the model.                                                    *)
(***************************************************************************)
\* TextDocument objects the editor creates for one path in one run.
MaxDocs == 2
\* Highest document version the editor hands out.
MaxVersion == 2
\* addOrUpdateDocument calls in one run (projectVersion is their count).
MaxProjectVersion == 3
\* Lines of a source map.
MaxLines == 2
\* Segments of a source map, over all its lines.
MaxSegs == 2
\* Values from -MaxSmallValue to MaxSmallValue are encoded, and some others.
MaxSmallValue == 40
\* Characters encodeVlq's loop is followed for.
MaxAnswer == 8
\* updateSourceMap calls on one map.
MaxUpdates == 2
\* remap calls in one chain of stages.
MaxRemaps == 2
\* Characters of a snapshot's text.
MaxTextLen == 3
\* getChangeRange calls on one pair of snapshots.
MaxChangeCalls == 2
\* Snapshots served whose versions are compared.
MaxServes == 2
\* Characters of an input of the offset lookup.
MaxInputLen == 4
\* Patterns in the path mappings, and replacements of one pattern.
MaxPatterns == 2
MaxReplacements == 2

(***************************************************************************)
(* Host: paths.  A path is the sequence <<stem, ext1, ..., extn>> of its   *)
(* file stem and its dot-extensions: "a.civet.tsx" is                      *)
(* <<"a", ".civet", ".tsx">>.                                              *)
(***************************************************************************)
SrcPath == <<"a", ".civet">>
MirrorPath == <<"a", ".civet", ".tsx">>
PlainPath == <<"b", ".ts">>
Paths == {SrcPath, MirrorPath, PlainPath}
\* The paths of the documents the editor opens: an SRC file and a plain TGT
\* file.
EditorPaths == {SrcPath, PlainPath}

\* The transpilers TSService registers: extension -> target.
transpilerDefinitions == [extension \in {".civet"} |-> ".tsx"]

\* getExtensionFromPath: the last extension including the dot, "" if none.
getExtensionFromPath(path) ==
  IF Len(path) > 1 THEN path[Len(path)] ELSE ""

\* getTranspiledExtensionsFromPath: the last two extensions, <<>> if the
\* path has fewer than two.
getTranspiledExtensionsFromPath(path) ==
  IF Len(path) > 2 THEN <<path[Len(path) - 1], path[Len(path)]>> ELSE <<>>

\* removeExtension: the path without its last extension.
removeExtension(path) ==
  IF Len(path) > 1 THEN SubSeq(path, 1, Len(path) - 1) ELSE path

\* getCanonicalFileName: path.join normalises the separators; the paths of
\* the model are already normalised.
getCanonicalFileName(fileName) == fileName

(***************************************************************************)
(* Host: the external collaborators.                                       *)
(***************************************************************************)
\* Document texts the editor produces.  "!" is a text the transpiler throws
\* on, "?" one for which it returns undefined.
Texts == {"", "a", "b", "!", "?"}

\* The texts tried at a path: a text is compiled only at a path with a
\* transpiler, elsewhere every text is treated alike.
TextsAt(path) ==
  IF getExtensionFromPath(path) \in DOMAIN transpilerDefinitions
  THEN Texts ELSE {"", "a"}

\* Transpiler.compile(path, source): what the call does on each text.
\* kind "ok": {code, sourceMap, errors}; kind "throw": the exception `error`;
\* kind "undefined": no result.
compile(path, source) ==
  CASE source = "!" ->
         [kind |-> "throw", code |-> "", sourceMap |-> "", errors |-> <<>>,
          error |-> "ParseError"]
    [] source = "?" ->
         [kind |-> "undefined", code |-> "", sourceMap |-> "", errors |-> <<>>,
          error |-> ""]
    [] source = "" ->
         [kind |-> "ok", code |-> "", sourceMap |-> "map()", errors |-> <<>>,
          error |-> ""]
    [] source = "a" ->
         [kind |-> "ok", code |-> "A;", sourceMap |-> "map(a)", errors |-> <<>>,
          error |-> ""]
    [] OTHER ->
         [kind |-> "ok", code |-> "B;", sourceMap |-> "map(b)",
          errors |-> <<"recoverable">>, error |-> ""]

\* The file systems a run may start on (sys.fileExists / sys.readFile):
\* path -> <<>> (no such file) or <<text>>.
EmptyDisk == [p \in Paths |-> <<>>]
FullDisk == [p \in Paths |->
               IF p = SrcPath THEN <<"a">>
               ELSE IF p = PlainPath THEN <<"b">> ELSE <<>>]
Disks == {EmptyDisk, FullDisk}

(***************************************************************************)
(* Host: state.                                                            *)
(***************************************************************************)
VARIABLES
  docs,             \* the heap of live TextDocument objects: id -> [uri, text, version]
  pathMap,          \* path -> document id, NoDoc when the path has no entry
  snapshotMap,      \* path -> <<>> or <<snapshot>>
  scriptFileNames,  \* set of paths
  fileMetaData,     \* path -> <<>> or <<FileMeta>>
  projectVersion,
  transpilers,      \* extension -> target, for the registered transpilers
  disk,             \* the file system
  editor,           \* per path, how many TextDocument objects the editor has
                    \* created; it holds the last one
  rising,           \* history: per path, whether every addOrUpdateDocument
                    \* passed a higher version than the call before
  lastGood          \* history: <<>> or <<[code, sourceMap, version]>> of the
                    \* last compile of SrcPath that returned a result

hostVars == <<docs, pathMap, snapshotMap, scriptFileNames, fileMetaData,
              projectVersion, transpilers, disk, editor, rising, lastGood>>

\* Document ids: <<path, k>> is the k-th object the editor created for path,
\* <<path, 0>> the document the host created for path.
NoDoc == <<>>
HostDoc(path) == <<path, 0>>
EditorDoc(path) == <<path, editor[path]>>

\* The mutable part of the host as one record, so that the helper functions
\* of TSHost can be written as functions from host state to host state.
HostState == [docs |-> docs, pathMap |-> pathMap, snapshotMap |-> snapshotMap,
              scriptFileNames |-> scriptFileNames,
              fileMetaData |-> fileMetaData]

\* Snap(newText): a snapshot of a text.
Snap(newText) == [text |-> newText]

\* TextDocument.create(uri, languageId, version, content)
TextDocumentCreate(uri, version, content) ==
  [uri |-> uri, text |-> content, version |-> version]

\* transpilers.get(extension): <<>> or <<target>>
transpilersGet(ts, extension) ==
  IF extension \in DOMAIN ts THEN <<ts[extension]>> ELSE <<>>

\* initTranspiledDoc creating the mirror document at version 0.
initTranspiledDoc_VersionZero(S, path) ==
  [S EXCEPT
     !.docs = (HostDoc(path) :> TextDocumentCreate(path, 0, "")) @@ S.docs,
     !.pathMap = [S.pathMap EXCEPT ![path] = HostDoc(path)],
     !.scriptFileNames = S.scriptFileNames \cup {path}]

\* initTranspiledDoc(path): an empty document of version -1 at the mirror
\* path, entered in pathMap and scriptFileNames.
initTranspiledDoc(S, path) ==
  [S EXCEPT
     !.docs = (HostDoc(path) :> TextDocumentCreate(path, -1, "")) @@ S.docs,
     !.pathMap = [S.pathMap EXCEPT ![path] = HostDoc(path)],
     !.scriptFileNames = S.scriptFileNames \cup {path}]

\* createOrUpdateMeta(path, transpiledDoc, sourcemapLines, parseErrors, fatal)
\* sourcemapLines and parseErrors are <<>> for undefined, <<value>> otherwise.
createOrUpdateMeta(S, path, transpiledDoc, sourcemapLines, parseErrors, fatal) ==
  IF S.fileMetaData[path] = <<>>
  THEN [S EXCEPT !.fileMetaData[path] =
          <<[sourcemapLines |-> sourcemapLines, transpiledDoc |-> transpiledDoc,
             parseErrors |-> parseErrors, fatal |-> fatal]>>]
  ELSE [S EXCEPT !.fileMetaData[path] =
          <<[S.fileMetaData[path][1] EXCEPT
               !.sourcemapLines = sourcemapLines,
               !.parseErrors = parseErrors,
               !.fatal = fatal]>>]

\* doTranspileAndUpdateMeta emptying the mirror document when compile throws.
doTranspileAndUpdateMeta_ClearsOnThrow(S, transpiledDoc, version, sourcePath, sourceCode) ==
  LET result == compile(sourcePath, sourceCode) IN
  CASE result.kind = "throw" ->
         LET S1 == createOrUpdateMeta(S, sourcePath, transpiledDoc, <<>>,
                                      <<(<<result.error>>)>>, TRUE)
         IN [S |-> [S1 EXCEPT !.docs[transpiledDoc] =
                      [@ EXCEPT !.text = "", !.version = version]],
             code |-> <<>>, escaped |-> FALSE]
    [] result.kind = "ok" ->
         LET S1 == createOrUpdateMeta(S, sourcePath, transpiledDoc,
                                      <<result.sourceMap>>, <<result.errors>>,
                                      FALSE)
         IN [S |-> [S1 EXCEPT !.docs[transpiledDoc] =
                      [@ EXCEPT !.text = result.code, !.version = version]],
             code |-> <<result.code>>, escaped |-> FALSE]
    [] OTHER -> [S |-> S, code |-> <<>>, escaped |-> FALSE]

\* doTranspileAndUpdateMeta without its try/catch.
doTranspileAndUpdateMeta_NoCatch(S, transpiledDoc, version, sourcePath, sourceCode) ==
  LET result == compile(sourcePath, sourceCode) IN
  CASE result.kind = "throw" ->
         [S |-> S, code |-> <<>>, escaped |-> TRUE]
    [] result.kind = "ok" ->
         LET S1 == createOrUpdateMeta(S, sourcePath, transpiledDoc,
                                      <<result.sourceMap>>, <<result.errors>>,
                                      FALSE)
         IN [S |-> [S1 EXCEPT !.docs[transpiledDoc] =
                      [@ EXCEPT !.text = result.code, !.version = version]],
             code |-> <<result.code>>, escaped |-> FALSE]
    [] OTHER -> [S |-> S, code |-> <<>>, escaped |-> FALSE]

\* doTranspileAndUpdateMeta leaving the mirror document's version alone.
doTranspileAndUpdateMeta_KeepsVersion(S, transpiledDoc, version, sourcePath, sourceCode) ==
  LET result == compile(sourcePath, sourceCode) IN
  CASE result.kind = "throw" ->
         [S |-> createOrUpdateMeta(S, sourcePath, transpiledDoc, <<>>,
                                   <<(<<result.error>>)>>, TRUE),
          code |-> <<>>, escaped |-> FALSE]
    [] result.kind = "ok" ->
         LET S1 == createOrUpdateMeta(S, sourcePath, transpiledDoc,
                                      <<result.sourceMap>>, <<result.errors>>,
                                      FALSE)
         IN [S |-> [S1 EXCEPT !.docs[transpiledDoc] =
                      [@ EXCEPT !.text = result.code]],
             code |-> <<result.code>>, escaped |-> FALSE]
    [] OTHER -> [S |-> S, code |-> <<>>, escaped |-> FALSE]

\* doTranspileAndUpdateMeta(transpiledDoc, version, transpiler, sourcePath,
\* sourceCode): [S, code, escaped] where code is <<>> for undefined and
\* escaped says whether an exception left the function.
doTranspileAndUpdateMeta(S, transpiledDoc, version, sourcePath, sourceCode) ==
  LET result == compile(sourcePath, sourceCode) IN
  CASE result.kind = "throw" ->
         [S |-> createOrUpdateMeta(S, sourcePath, transpiledDoc, <<>>,
                                   <<(<<result.error>>)>>, TRUE),
          code |-> <<>>, escaped |-> FALSE]
    [] result.kind = "ok" ->
         LET S1 == createOrUpdateMeta(S, sourcePath, transpiledDoc,
                                      <<result.sourceMap>>, <<result.errors>>,
                                      FALSE)
         IN [S |-> [S1 EXCEPT !.docs[transpiledDoc] =
                      \* TextDocument.update(transpiledDoc, [{text}], version)
                      [@ EXCEPT !.text = result.code, !.version = version]],
             code |-> <<result.code>>, escaped |-> FALSE]
    [] OTHER -> [S |-> S, code |-> <<>>, escaped |-> FALSE]

\* getPathSource(path): the document's text, else the file's, else "".
getPathSource(S, path) ==
  IF S.pathMap[path] # NoDoc THEN S.docs[S.pathMap[path]].text
  ELSE IF disk[path] # <<>> THEN disk[path][1]
  ELSE ""

\* getOrCreatePathSnapshot not entering the snapshot in snapshotMap.
getOrCreatePathSnapshot_NoStore(S, path) ==
  LET exts == getTranspiledExtensionsFromPath(path) IN
  IF S.snapshotMap[path] # <<>>
  THEN [S |-> S, snapshot |-> S.snapshotMap[path], escaped |-> FALSE,
        ran |-> <<>>]
  ELSE IF exts # <<>> /\ transpilersGet(transpilers, exts[1]) # <<>>
  THEN \* a possibly transpiled file
    LET sourcePath == removeExtension(path)
        sourceDoc == S.pathMap[sourcePath]
        S1 == IF S.pathMap[path] = NoDoc THEN initTranspiledDoc(S, path) ELSE S
        transpiledDoc == S1.pathMap[path]
        \* <<>> is sys.readFile's undefined
        source == IF sourceDoc = NoDoc THEN disk[sourcePath]
                  ELSE <<S1.docs[sourceDoc].text>>
        sourceDocVersion == IF sourceDoc = NoDoc THEN 0
                            ELSE S1.docs[sourceDoc].version
        \* source && sourceDocVersion > transpiledDoc.version
        ahead == /\ source # <<>>
                 /\ source[1] # ""
                 /\ sourceDocVersion > S1.docs[transpiledDoc].version
        t == doTranspileAndUpdateMeta(S1, transpiledDoc, sourceDocVersion,
                                      sourcePath, source[1])
        S2 == IF ahead THEN t.S ELSE S1
        snapshot == IF ahead /\ t.code # <<>> THEN Snap(t.code[1])
                    ELSE Snap(S2.docs[transpiledDoc].text)
    IN IF ahead /\ t.escaped
       THEN [S |-> t.S, snapshot |-> <<>>, escaped |-> TRUE, ran |-> source]
       ELSE [S |-> S2,
             snapshot |-> <<snapshot>>, escaped |-> FALSE,
             ran |-> IF ahead THEN source ELSE <<>>]
  ELSE \* regular non-transpiled file
    LET snapshot == Snap(getPathSource(S, path))
    IN [S |-> S,
        snapshot |-> <<snapshot>>, escaped |-> FALSE, ran |-> <<>>]

\* getOrCreatePathSnapshot(path): [S, snapshot, escaped, ran]; snapshot is
\* <<>> when no snapshot is returned, ran is <<source>> when compile was
\* called on source and <<>> when it was not called.
getOrCreatePathSnapshot(S, path) ==
  LET exts == getTranspiledExtensionsFromPath(path) IN
  IF S.snapshotMap[path] # <<>>
  THEN [S |-> S, snapshot |-> S.snapshotMap[path], escaped |-> FALSE,
        ran |-> <<>>]
  ELSE IF exts # <<>> /\ transpilersGet(transpilers, exts[1]) # <<>>
  THEN \* a possibly transpiled file
    LET sourcePath == removeExtension(path)
        sourceDoc == S.pathMap[sourcePath]
        S1 == IF S.pathMap[path] = NoDoc THEN initTranspiledDoc(S, path) ELSE S
        transpiledDoc == S1.pathMap[path]
        \* <<>> is sys.readFile's undefined
        source == IF sourceDoc = NoDoc THEN disk[sourcePath]
                  ELSE <<S1.docs[sourceDoc].text>>
        sourceDocVersion == IF sourceDoc = NoDoc THEN 0
                            ELSE S1.docs[sourceDoc].version
        \* source && sourceDocVersion > transpiledDoc.version
        ahead == /\ source # <<>>
                 /\ source[1] # ""
                 /\ sourceDocVersion > S1.docs[transpiledDoc].version
        t == doTranspileAndUpdateMeta(S1, transpiledDoc, sourceDocVersion,
                                      sourcePath, source[1])
        S2 == IF ahead THEN t.S ELSE S1
        snapshot == IF ahead /\ t.code # <<>> THEN Snap(t.code[1])
                    ELSE Snap(S2.docs[transpiledDoc].text)
    IN IF ahead /\ t.escaped
       THEN [S |-> t.S, snapshot |-> <<>>, escaped |-> TRUE, ran |-> source]
       ELSE [S |-> [S2 EXCEPT !.snapshotMap[path] = <<snapshot>>],
             snapshot |-> <<snapshot>>, escaped |-> FALSE,
             ran |-> IF ahead THEN source ELSE <<>>]
  ELSE \* regular non-transpiled file
    LET snapshot == Snap(getPathSource(S, path))
    IN [S |-> [S EXCEPT !.snapshotMap[path] = <<snapshot>>],
        snapshot |-> <<snapshot>>, escaped |-> FALSE, ran |-> <<>>]

\* getTranspiledPath(path): path + target for a transpilable path.
getTranspiledPath(path) ==
  LET transpiler == transpilersGet(transpilers, getExtensionFromPath(path))
  IN IF transpiler # <<>> THEN Append(path, transpiler[1]) ELSE path

\* addOrUpdateDocument leaving projectVersion alone for a transpilable path.
addOrUpdateDocument_NoBump(S, pv, d) ==
  LET path == S.docs[d].uri
      S0 == [S EXCEPT !.snapshotMap[path] = <<>>]
      transpiler == transpilersGet(transpilers, getExtensionFromPath(path))
  IN IF transpiler # <<>>
     THEN LET transpiledPath == Append(path, transpiler[1])
              S1 == IF S0.pathMap[transpiledPath] = NoDoc
                    THEN initTranspiledDoc(S0, transpiledPath) ELSE S0
          IN [S |-> [S1 EXCEPT !.snapshotMap[transpiledPath] = <<>>,
                               !.pathMap[path] = d],
              projectVersion |-> pv]
     ELSE [S |-> [S0 EXCEPT
                    !.scriptFileNames = S0.scriptFileNames \cup {path},
                    !.pathMap[path] =
                       IF S0.pathMap[path] = NoDoc THEN d
                       ELSE S0.pathMap[path]],
           projectVersion |-> pv + 1]

\* addOrUpdateDocument adding a transpilable path to scriptFileNames.
addOrUpdateDocument_ListsSource(S, pv, d) ==
  LET path == S.docs[d].uri
      S0 == [S EXCEPT !.snapshotMap[path] = <<>>]
      transpiler == transpilersGet(transpilers, getExtensionFromPath(path))
  IN IF transpiler # <<>>
     THEN LET transpiledPath == Append(path, transpiler[1])
              S1 == IF S0.pathMap[transpiledPath] = NoDoc
                    THEN initTranspiledDoc(S0, transpiledPath) ELSE S0
          IN [S |-> [S1 EXCEPT !.snapshotMap[transpiledPath] = <<>>,
                               !.scriptFileNames = @ \cup {path},
                               !.pathMap[path] = d],
              projectVersion |-> pv + 1]
     ELSE [S |-> [S0 EXCEPT
                    !.scriptFileNames = S0.scriptFileNames \cup {path},
                    !.pathMap[path] =
                       IF S0.pathMap[path] = NoDoc THEN d
                       ELSE S0.pathMap[path]],
           projectVersion |-> pv + 1]

\* addOrUpdateDocument not creating the mirror document.
addOrUpdateDocument_NoMirror(S, pv, d) ==
  LET path == S.docs[d].uri
      S0 == [S EXCEPT !.snapshotMap[path] = <<>>]
      transpiler == transpilersGet(transpilers, getExtensionFromPath(path))
  IN IF transpiler # <<>>
     THEN LET transpiledPath == Append(path, transpiler[1])
          IN [S |-> [S0 EXCEPT !.snapshotMap[transpiledPath] = <<>>,
                               !.pathMap[path] = d],
              projectVersion |-> pv + 1]
     ELSE [S |-> [S0 EXCEPT
                    !.scriptFileNames = S0.scriptFileNames \cup {path},
                    !.pathMap[path] =
                       IF S0.pathMap[path] = NoDoc THEN d
                       ELSE S0.pathMap[path]],
           projectVersion |-> pv + 1]

\* addOrUpdateDocument(doc), doc being the heap object d: [S, projectVersion]
addOrUpdateDocument(S, pv, d) ==
  LET path == S.docs[d].uri
      S0 == [S EXCEPT !.snapshotMap[path] = <<>>]
      transpiler == transpilersGet(transpilers, getExtensionFromPath(path))
  IN IF transpiler # <<>>
     THEN LET transpiledPath == Append(path, transpiler[1])
              S1 == IF S0.pathMap[transpiledPath] = NoDoc
                    THEN initTranspiledDoc(S0, transpiledPath) ELSE S0
          IN [S |-> [S1 EXCEPT !.snapshotMap[transpiledPath] = <<>>,
                               !.pathMap[path] = d],
              projectVersion |-> pv + 1]
     ELSE [S |-> [S0 EXCEPT
                    !.scriptFileNames = S0.scriptFileNames \cup {path},
                    !.pathMap[path] =
                       IF S0.pathMap[path] = NoDoc THEN d
                       ELSE S0.pathMap[path]],
           projectVersion |-> pv + 1]

\* getScriptVersion(path): number.toString() of the held document's version
DigitChars == <<"0", "1", "2", "3", "4", "5", "6", "7", "8", "9">>

RECURSIVE NatToString(_)
NatToString(n) ==
  IF n < 10 THEN DigitChars[n + 1]
  ELSE NatToString(n \div 10) \o DigitChars[(n % 10) + 1]

NumberToString(n) == IF n < 0 THEN "-" \o NatToString(-n) ELSE NatToString(n)

getScriptVersion(path) ==
  LET p == getCanonicalFileName(path)
  IN IF pathMap[p] # NoDoc THEN NumberToString(docs[pathMap[p]].version)
     ELSE "0"

(***************************************************************************)
(* Host: actions.                                                          *)
(***************************************************************************)
\* The objects the program can still reach: those in pathMap and those the
\* editor holds.  The others are garbage and leave the heap.
Live(pm, ed) ==
  {pm[p] : p \in DOMAIN pm} \cup {<<p, ed[p]>> : p \in DOMAIN ed}

Install(S, ed) ==
  /\ docs' = [d \in DOMAIN S.docs \cap Live(S.pathMap, ed) |-> S.docs[d]]
  /\ pathMap' = S.pathMap
  /\ snapshotMap' = S.snapshotMap
  /\ scriptFileNames' = S.scriptFileNames
  /\ fileMetaData' = S.fileMetaData
  /\ editor' = ed

\* The version last passed to addOrUpdateDocument for a path, 0 if none: a
\* document changes only when the editor changes it and passes it on.
LastVersion(path) ==
  IF editor[path] = 0 THEN 0 ELSE docs[EditorDoc(path)].version

\* The call host.addOrUpdateDocument(doc) on the heap H in which the editor
\* has just created or changed the document d.
CallAddOrUpdateDocument(H, ed, d) ==
  LET r == addOrUpdateDocument([HostState EXCEPT !.docs = H],
                               projectVersion, d)
      path == H[d].uri
  IN /\ projectVersion < MaxProjectVersion
     /\ Install(r.S, ed)
     /\ projectVersion' = r.projectVersion
     /\ rising' = [rising EXCEPT ![path] =
                     @ /\ H[d].version > LastVersion(path)]
     /\ UNCHANGED <<transpilers, disk, lastGood>>

\* The editor opens a document: a new TextDocument object, then
\* addOrUpdateDocument.
OpenDocument(path, text, version) ==
  LET d == <<path, editor[path] + 1>>
  IN /\ editor[path] < MaxDocs
     /\ CallAddOrUpdateDocument(
           (d :> TextDocumentCreate(path, version, text)) @@ docs,
           [editor EXCEPT ![path] = @ + 1], d)

\* The editor changes the document it holds for a path: TextDocument.update
\* changes the object in place and raises its version, then
\* addOrUpdateDocument.
ChangeDocument(path, text) ==
  LET d == EditorDoc(path)
  IN /\ editor[path] > 0
     /\ docs[d].version < MaxVersion
     /\ CallAddOrUpdateDocument(
           [docs EXCEPT ![d] = [@ EXCEPT !.text = text, !.version = @ + 1]],
           editor, d)

\* What a call of getOrCreatePathSnapshot that returned r leaves behind.
Served(r) ==
  LET result == compile(SrcPath, r.ran[1])
  IN /\ Install(r.S, editor)
     /\ lastGood' = IF r.ran # <<>> /\ result.kind = "ok"
                    THEN <<[code |-> result.code,
                            sourceMap |-> result.sourceMap,
                            version |-> LastVersion(SrcPath)]>>
                    ELSE lastGood
     /\ UNCHANGED <<projectVersion, transpilers, disk, rising>>

\* getScriptSnapshot(path)
GetScriptSnapshot(path) ==
  Served(getOrCreatePathSnapshot(HostState, getCanonicalFileName(path)))

\* getMeta(path)
GetMeta(path) ==
  Served(getOrCreatePathSnapshot(HostState, getTranspiledPath(path)))

\* TSHost(compilationSettings, initialFileNames, baseHost, transpilers): the
\* file list is that of the files on disk that TypeScript itself reads.
HostInit ==
  /\ disk \in Disks
  /\ docs = <<>>
  /\ pathMap = [p \in Paths |-> NoDoc]
  /\ snapshotMap = [p \in Paths |-> <<>>]
  /\ scriptFileNames = {p \in {PlainPath} : disk[p] # <<>>}
  /\ fileMetaData = [p \in Paths |-> <<>>]
  /\ projectVersion = 0
  /\ transpilers = transpilerDefinitions
  /\ editor = [p \in EditorPaths |-> 0]
  /\ rising = [p \in EditorPaths |-> TRUE]
  /\ lastGood = <<>>

(***************************************************************************)
(* Host: plugins.  A plugin file in the project's .civet folder registers  *)
(* a transpiler for the extension ".coffee" with target ".js".             *)
(***************************************************************************)
\* A file of the plugin's extension and its mirror path.
PluginPath == <<"c", ".coffee">>
PluginMirrorPath == <<"c", ".coffee", ".js">>
PluginPaths == Paths \cup {PluginPath, PluginMirrorPath}
PluginEditorPaths == EditorPaths \cup {PluginPath}

\* plugin.transpilers of the plugin: extension -> target
pluginTranspilers == [extension \in {".coffee"} |-> ".js"]

\* TSService(projectURL) of a project with a plugin, before loadPlugins: the
\* host knows the transpiler definitions only.
PluginHostInit ==
  /\ disk = [p \in PluginPaths |-> <<>>]
  /\ docs = <<>>
  /\ pathMap = [p \in PluginPaths |-> NoDoc]
  /\ snapshotMap = [p \in PluginPaths |-> <<>>]
  /\ scriptFileNames = {}
  /\ fileMetaData = [p \in PluginPaths |-> <<>>]
  /\ projectVersion = 0
  /\ transpilers = transpilerDefinitions
  /\ editor = [p \in PluginEditorPaths |-> 0]
  /\ rising = [p \in PluginEditorPaths |-> TRUE]
  /\ lastGood = <<>>

\* loadPlugin(path), when the import's promise is fulfilled:
\* plugin.transpilers.forEach(t => transpilers.set(t.extension, t))
LoadPlugin ==
  /\ \E extension \in DOMAIN pluginTranspilers : extension \notin DOMAIN transpilers
  /\ transpilers' = [extension \in DOMAIN transpilers \cup DOMAIN pluginTranspilers |->
                       IF extension \in DOMAIN pluginTranspilers
                       THEN pluginTranspilers[extension]
                       ELSE transpilers[extension]]
  /\ UNCHANGED <<docs, pathMap, snapshotMap, scriptFileNames, fileMetaData,
                 projectVersion, disk, editor, rising, lastGood>>

(***************************************************************************)
(* Host: what the TGT service has been served.                             *)
(***************************************************************************)
VARIABLES
  served  \* for each path, the pairs <<text, version>> of the snapshots
          \* getScriptSnapshot(path) returned in the calls that were
          \* followed by getScriptVersion(path), with the version returned

servedVars == <<served>>

ServedIdle == served = [p \in Paths |-> {}]

\* getScriptSnapshot(path), then getScriptVersion(path); at most MaxServes
\* pairs are kept
ServeScriptSnapshot(path) ==
  LET r == getOrCreatePathSnapshot(HostState, getCanonicalFileName(path))
      kept == UNION {{<<p, x>> : x \in served[p]} : p \in Paths}
  IN /\ Cardinality(kept) < MaxServes
     /\ GetScriptSnapshot(path)
     /\ served' = IF r.snapshot = <<>> THEN served
                  ELSE [served EXCEPT ![path] =
                          @ \cup {<<r.snapshot[1].text, getScriptVersion(path)'>>}]

(***************************************************************************)
(* Source maps: resolved lines.  A segment is <<genColDelta>>,             *)
(* <<genColDelta, srcFileIx, srcLine, srcCol>> or                          *)
(* <<genColDelta, srcFileIx, srcLine, srcCol, nameIx>>; a line is a        *)
(* sequence of segments and a map a sequence of lines.  Lines and columns  *)
(* are zero-based, so line L of a map is mapLines[L + 1].                  *)
(***************************************************************************)
\* remapPosition's loop from segment i (one-based) on: the last mapping seen
\* (<<>> or <<mapping>>) and its position when the loop ends.
RECURSIVE remapWalk(_, _, _, _, _, _)
remapWalk(textLine, i, p0, lastMapping, lastMappingPosition, character) ==
  IF i > Len(textLine)
  THEN [lastMapping |-> lastMapping,
        lastMappingPosition |-> lastMappingPosition]
  ELSE LET mapping == textLine[i]
           p == p0 + mapping[1]
           seen == Len(mapping) = 4
           lm == IF seen THEN <<mapping>> ELSE lastMapping
           lmp == IF seen THEN p ELSE lastMappingPosition
       IN IF p >= character
          THEN [lastMapping |-> lm, lastMappingPosition |-> lmp]
          ELSE remapWalk(textLine, i + 1, p, lm, lmp, character)

\* remapPosition returning the last mapping at or before the column.
remapPosition_Nearest(pos, sourcemapLines) ==
  LET line == pos[1]
      character == pos[2]
  IN IF line + 1 \notin DOMAIN sourcemapLines THEN <<>>
     ELSE IF Len(sourcemapLines[line + 1]) = 0 THEN <<>>
     ELSE LET w == remapWalk(sourcemapLines[line + 1], 1, 0, <<>>, 0,
                             character)
          IN IF w.lastMapping # <<>>
             THEN <<w.lastMapping[1][3], w.lastMapping[1][4]>>
             ELSE <<>>

\* remapPosition(position, sourcemapLines): <<>> for undefined, else
\* <<srcLine, srcCol>>.
remapPosition(pos, sourcemapLines) ==
  LET line == pos[1]
      character == pos[2]
  IN IF line + 1 \notin DOMAIN sourcemapLines THEN <<>>
     ELSE IF Len(sourcemapLines[line + 1]) = 0 THEN <<>>
     ELSE LET w == remapWalk(sourcemapLines[line + 1], 1, 0, <<>>, 0,
                             character)
          IN IF character - w.lastMappingPosition # 0 THEN <<>>
             ELSE IF w.lastMapping # <<>>
             THEN <<w.lastMapping[1][3], w.lastMapping[1][4]>>
             ELSE <<>>

\* composeLines' function of one entry, a segment that does not remap
\* losing its genColDelta.
composeEntry_DropsDelta(upstreamMapping, entry) ==
  IF Len(entry) = 1 THEN entry
  ELSE LET srcPos == remapPosition(<<entry[3], entry[4]>>, upstreamMapping)
       IN IF srcPos = <<>> THEN <<0>>
          ELSE IF Len(entry) = 4
          THEN <<entry[1], entry[2], srcPos[1], srcPos[2]>>
          ELSE <<entry[1], entry[2], srcPos[1], srcPos[2], entry[5]>>

\* composeLines' function of one entry, a segment that remaps keeping its
\* own source position.
composeEntry_KeepsSource(upstreamMapping, entry) ==
  IF Len(entry) = 1 THEN entry
  ELSE LET srcPos == remapPosition(<<entry[3], entry[4]>>, upstreamMapping)
       IN IF srcPos = <<>> THEN <<entry[1]>> ELSE entry

\* composeLines' function of one entry of the downstream map.
composeEntry(upstreamMapping, entry) ==
  IF Len(entry) = 1 THEN entry
  ELSE LET srcPos == remapPosition(<<entry[3], entry[4]>>, upstreamMapping)
       IN IF srcPos = <<>> THEN <<entry[1]>>
          ELSE IF Len(entry) = 4
          THEN <<entry[1], entry[2], srcPos[1], srcPos[2]>>
          ELSE <<entry[1], entry[2], srcPos[1], srcPos[2], entry[5]>>

\* SourceMap.composeLines(upstreamMapping, lines)
composeLines(upstreamMapping, downstream) ==
  [i \in 1..Len(downstream) |->
     [j \in 1..Len(downstream[i]) |->
        composeEntry(upstreamMapping, downstream[i][j])]]

\* The maps of the model: at most MaxLines lines and MaxSegs segments, the
\* segments drawn from a set.
LinesOf(Segments, k) == [1..k -> Segments]

RECURSIVE MapsOf(_, _, _)
MapsOf(Segments, n, k) ==
  IF n = 0 THEN {<<>>}
  ELSE UNION {{<<l>> \o m : l \in LinesOf(Segments, j),
                            m \in MapsOf(Segments, n - 1, k - j)} :
              j \in 0..k}

Maps(Segments) == UNION {MapsOf(Segments, n, MaxSegs) : n \in 0..MaxLines}

\* Segments of the maps positions are looked up in: two generated-column
\* deltas, 0 (same column as the segment before) and 2 (a gap), and the
\* three arities.
GenColDeltas == {0, 2}
RemapSegments ==
  {<<d>> : d \in GenColDeltas}
    \cup {<<d, 0, src[1], src[2]>> : d \in GenColDeltas,
                                     src \in {<<0, 1>>, <<1, 0>>}}
    \cup {<<d, 0, 1, 1, 0>> : d \in GenColDeltas}

\* Positions looked up: every line of a map and the one after the last,
\* every column up to the last one a segment can have and the one after.
Positions == (0..MaxLines) \X (0..(2 * MaxSegs + 1))

\* Segments of downstream maps: their source positions are positions of the
\* upstream maps below.
DownstreamSegments ==
  {<<d>> : d \in GenColDeltas}
    \cup {<<d, 0, src[1], src[2]>> : d \in GenColDeltas,
                                     src \in {<<0, 0>>, <<0, 2>>, <<1, 0>>}}
    \cup {<<2, 0, src[1], src[2], 7>> : src \in {<<0, 0>>, <<1, 0>>}}

\* Upstream maps a downstream map is composed with: no line; a line with an
\* anchor at column 0; anchors at columns 0 and 2 and an empty second line;
\* a named and an unmapped anchor and a second line with an anchor.
UpstreamMaps ==
  { <<>>,
    << <<(<<0, 0, 5, 2>>)>> >>,
    << <<(<<0, 0, 5, 2>>), <<2, 0, 6, 0>> >>, <<>> >>,
    << <<(<<0, 0, 3, 3, 1>>), <<2>> >>, <<(<<0, 0, 4, 4>>)>> >> }

VARIABLES
  mapLines,        \* remapPosition: the map
  position,        \* remapPosition: the position looked up
  remapped,        \* <<>> before the call, then <<result>>
  upstreamMapping, \* composeLines: the upstream map
  downstreamLines, \* composeLines: the downstream map
  composedLines    \* <<>> before the call, then <<result>>

remapVars == <<mapLines, position, remapped>>
composeVars == <<upstreamMapping, downstreamLines, composedLines>>

RemapIdle == mapLines = <<>> /\ position = <<0, 0>> /\ remapped = <<>>
ComposeIdle ==
  upstreamMapping = <<>> /\ downstreamLines = <<>> /\ composedLines = <<>>

RemapInit ==
  /\ mapLines \in Maps(RemapSegments)
  /\ position \in Positions
  /\ remapped = <<>>

RemapPosition ==
  /\ remapped = <<>>
  /\ remapped' = <<remapPosition(position, mapLines)>>
  /\ UNCHANGED <<mapLines, position>>

ComposeInit ==
  /\ upstreamMapping \in UpstreamMaps
  /\ downstreamLines \in Maps(DownstreamSegments)
  /\ composedLines = <<>>

ComposeLines ==
  /\ composedLines = <<>>
  /\ composedLines' = <<composeLines(upstreamMapping, downstreamLines)>>
  /\ UNCHANGED <<upstreamMapping, downstreamLines>>

(***************************************************************************)
(* Base64 VLQ.  Numbers are 32-bit two's complement where the code applies *)
(* a bitwise operator; a string is the sequence of its character codes.    *)
(***************************************************************************)
MinInt32 == -2147483647 - 1
MaxInt32 == 2147483647 + 0

\* ToInt32(Math.abs(value)) for a value in [-2^31, 2^31)
AbsToInt32(value) ==
  IF value = MinInt32 THEN MinInt32 ELSE IF value < 0 THEN -value ELSE value

\* x << n on 32 bits, n in 0..31
ShiftLeft(x, n) ==
  IF n = 0 THEN x
  ELSE LET low == x % (2 ^ (31 - n))
           top == (x \div (2 ^ (31 - n))) % 2
       IN low * (2 ^ n) + (IF top = 1 THEN MinInt32 ELSE 0)

\* x >> n on 32 bits (sign-propagating), n in 0..30
ShiftRight(x, n) == x \div (2 ^ n)

\* The low k bits of x | y, k in 0..31
RECURSIVE Or31(_, _, _)
Or31(x, y, k) ==
  IF k = 0 \/ (x = 0 /\ y = 0) THEN 0
  ELSE (IF x % 2 = 1 \/ y % 2 = 1 THEN 1 ELSE 0)
         + 2 * Or31(x \div 2, y \div 2, k - 1)

\* x | y on 32 bits
BitOr(x, y) ==
  Or31(x, y, 31) + (IF x < 0 \/ y < 0 THEN MinInt32 ELSE 0)

VLQ_SHIFT == 5
VLQ_CONTINUATION_BIT == 2 ^ VLQ_SHIFT
VLQ_VALUE_MASK == VLQ_CONTINUATION_BIT - 1

\* 'A'..'Z', 'a'..'z', '0'..'9', '+', '/'
BASE64_CHARS ==
  [i \in 1..64 |->
     IF i <= 26 THEN 64 + i
     ELSE IF i <= 52 THEN 96 + (i - 26)
     ELSE IF i <= 62 THEN 47 + (i - 52)
     ELSE IF i = 63 THEN 43 ELSE 47]

vlqChars == BASE64_CHARS

vlqTable ==
  [c \in 0..127 |->
     IF \E i \in 1..64 : vlqChars[i] = c
     THEN (CHOOSE i \in 1..64 : vlqChars[i] = c) - 1
     ELSE 255]

\* encodeVlq before its loop: valueToEncode
encodeVlqStart(value) ==
  LET signBit == IF value < 0 THEN 1 ELSE 0
  IN ShiftLeft(AbsToInt32(value), 1) + signBit

\* encodeVlq's loop condition
encodeVlqContinues(v, a) == v # 0 \/ a = <<>>

\* One turn of encodeVlq's loop
encodeVlqTurn(v, a) ==
  LET chunk == v % (VLQ_VALUE_MASK + 1)
      rest == ShiftRight(v, VLQ_SHIFT)
      nextChunk == IF rest # 0 THEN chunk + VLQ_CONTINUATION_BIT ELSE chunk
  IN [valueToEncode |-> rest,
      answer |-> Append(a, BASE64_CHARS[nextChunk + 1])]

\* decodeVLQ's inner loop from character i (zero-based) on
RECURSIVE decodeValue(_, _, _, _)
decodeValue(mapping, i, shift, vlq) ==
  IF i >= Len(mapping)
  THEN [error |-> "Unexpected early end of mapping data", i |-> i, v |-> 0]
  ELSE LET c == mapping[i + 1]
       IN IF c \notin 0..127 \/ vlqTable[c] = 255
          THEN [error |-> "Invalid mapping character", i |-> i, v |-> 0]
          ELSE LET index == vlqTable[c]
                   vlq1 == BitOr(vlq, ShiftLeft(index % 32, shift % 32))
               IN IF (index \div 32) % 2 = 0
                  THEN [error |-> "", i |-> i + 1,
                        v |-> IF vlq1 % 2 = 1 THEN -ShiftRight(vlq1, 1)
                              ELSE ShiftRight(vlq1, 1)]
                  ELSE decodeValue(mapping, i + 1, shift + 5, vlq1)

\* decodeVLQ's outer loop
RECURSIVE decodeScan(_, _, _)
decodeScan(mapping, i, result) ==
  IF i >= Len(mapping) THEN [error |-> "", result |-> result]
  ELSE LET d == decodeValue(mapping, i, 0, 0)
       IN IF d.error # "" THEN [error |-> d.error, result |-> <<>>]
          ELSE decodeScan(mapping, d.i, Append(result, d.v))

\* decodeVLQ(mapping): the numbers, or the error thrown
decodeVLQ(mapping) == decodeScan(mapping, 0, <<>>)

\* The values encoded: the small ones, and values about the sixth and the
\* seventh character and at both ends of the 32-bit range.
VlqValues ==
  (-MaxSmallValue..MaxSmallValue)
    \cup {1023, 1024, -1023, -1024,
          2 ^ 25 - 1, 2 ^ 25, -(2 ^ 25),
          2 ^ 30 - 1, 1 - 2 ^ 30, 2 ^ 30, -(2 ^ 30),
          MaxInt32, -MaxInt32, MinInt32}

VARIABLES
  vlqValue,       \* the value given to encodeVlq
  valueToEncode,  \* encodeVlq's local
  answer,         \* encodeVlq's local, and its result
  vlqPc,          \* "call", "loop", "returned", "decoded"
  vlqDecoded      \* decodeVLQ's result

vlqVars == <<vlqValue, valueToEncode, answer, vlqPc, vlqDecoded>>

NotDecoded == [error |-> "", result |-> <<>>]

VlqIdle ==
  /\ vlqValue = 0
  /\ valueToEncode = 0
  /\ answer = <<>>
  /\ vlqPc = "idle"
  /\ vlqDecoded = NotDecoded

VlqInit ==
  /\ vlqValue \in VlqValues
  /\ valueToEncode = 0
  /\ answer = <<>>
  /\ vlqPc = "call"
  /\ vlqDecoded = NotDecoded

EncodeVlqEnter ==
  /\ vlqPc = "call"
  /\ valueToEncode' = encodeVlqStart(vlqValue)
  /\ answer' = <<>>
  /\ vlqPc' = "loop"
  /\ UNCHANGED <<vlqValue, vlqDecoded>>

EncodeVlqLoop ==
  /\ vlqPc = "loop"
  /\ encodeVlqContinues(valueToEncode, answer)
  /\ Len(answer) < MaxAnswer
  /\ valueToEncode' = encodeVlqTurn(valueToEncode, answer).valueToEncode
  /\ answer' = encodeVlqTurn(valueToEncode, answer).answer
  /\ UNCHANGED <<vlqValue, vlqPc, vlqDecoded>>

EncodeVlqReturn ==
  /\ vlqPc = "loop"
  /\ ~encodeVlqContinues(valueToEncode, answer)
  /\ vlqPc' = "returned"
  /\ UNCHANGED <<vlqValue, valueToEncode, answer, vlqDecoded>>

DecodeVLQ ==
  /\ vlqPc = "returned"
  /\ vlqDecoded' = decodeVLQ(answer)
  /\ vlqPc' = "decoded"
  /\ UNCHANGED <<vlqValue, valueToEncode, answer>>

(***************************************************************************)
(* Source maps: the serialized form.  A mappings string is the sequence of *)
(* its character codes.                                                    *)
(***************************************************************************)
\* encodeVlq's loop from valueToEncode v and answer a on.  It is applied
\* only to values for which the loop ends.
RECURSIVE encodeVlqLoop(_, _)
encodeVlqLoop(v, a) ==
  IF encodeVlqContinues(v, a)
  THEN encodeVlqLoop(encodeVlqTurn(v, a).valueToEncode,
                     encodeVlqTurn(v, a).answer)
  ELSE a

\* encodeVlq(value)
encodeVlq(value) == encodeVlqLoop(encodeVlqStart(value), <<>>)

\* ";" and ","
Semicolon == 59 + 0
Comma == 44 + 0

\* Array.prototype.join(sep), sep one character
RECURSIVE Join(_, _)
Join(strs, sep) ==
  IF Len(strs) = 0 THEN <<>>
  ELSE IF Len(strs) = 1 THEN strs[1]
  ELSE strs[1] \o <<sep>> \o Join(Tail(strs), sep)

\* String.prototype.split(sep), sep one character: the pieces between the
\* separators, one piece (the empty string) for the empty string.
RECURSIVE SplitFrom(_, _, _, _)
SplitFrom(str, sep, i, piece) ==
  IF i > Len(str) THEN <<piece>>
  ELSE IF str[i] = sep THEN <<piece>> \o SplitFrom(str, sep, i + 1, <<>>)
  ELSE SplitFrom(str, sep, i + 1, Append(piece, str[i]))

Split(str, sep) == SplitFrom(str, sep, 1, <<>>)

\* The concatenation of a sequence of strings
RECURSIVE Concat(_)
Concat(strs) == IF Len(strs) = 0 THEN <<>> ELSE strs[1] \o Concat(Tail(strs))

\* SourceMap.renderMappings' loop, never updating lastSourceLine and
\* lastSourceColumn.
RECURSIVE renderFrom_NoRunning(_, _, _, _, _, _)
renderFrom_NoRunning(lines, i, j, lastSourceLine, lastSourceColumn, acc) ==
  IF i > Len(lines) THEN acc
  ELSE IF j > Len(lines[i])
  THEN renderFrom_NoRunning(lines, i + 1, 1, lastSourceLine,
                            lastSourceColumn,
                            IF i < Len(lines) THEN Append(acc, <<>>) ELSE acc)
  ELSE LET entry == lines[i][j]
           text == IF Len(entry) = 4
                   THEN encodeVlq(entry[1]) \o encodeVlq(entry[2])
                          \o encodeVlq(entry[3] - lastSourceLine)
                          \o encodeVlq(entry[4] - lastSourceColumn)
                   ELSE encodeVlq(entry[1])
           line == [acc EXCEPT ![Len(acc)] = Append(@, text)]
       IN renderFrom_NoRunning(lines, i, j + 1, lastSourceLine,
                               lastSourceColumn, line)

\* SourceMap.renderMappings' loop over the entries of all lines, flattened:
\* from entry j of line i on, the rendered lines not yet joined.
RECURSIVE renderFrom(_, _, _, _, _, _)
renderFrom(lines, i, j, lastSourceLine, lastSourceColumn, acc) ==
  IF i > Len(lines) THEN acc
  ELSE IF j > Len(lines[i])
  THEN renderFrom(lines, i + 1, 1, lastSourceLine, lastSourceColumn,
                  IF i < Len(lines) THEN Append(acc, <<>>) ELSE acc)
  ELSE LET entry == lines[i][j]
           text == IF Len(entry) = 4
                   THEN encodeVlq(entry[1]) \o encodeVlq(entry[2])
                          \o encodeVlq(entry[3] - lastSourceLine)
                          \o encodeVlq(entry[4] - lastSourceColumn)
                   ELSE encodeVlq(entry[1])
           line == [acc EXCEPT ![Len(acc)] = Append(@, text)]
       IN IF Len(entry) = 4
          THEN renderFrom(lines, i, j + 1, entry[3], entry[4], line)
          ELSE renderFrom(lines, i, j + 1, lastSourceLine, lastSourceColumn,
                          line)

\* SourceMap.renderMappings() of a map with the given lines
renderMappings(lines) ==
  IF Len(lines) = 0 THEN <<>>
  ELSE LET rendered == renderFrom(lines, 1, 1, 0, 0, << <<>> >>)
       IN Join([i \in 1..Len(rendered) |-> Join(rendered[i], Comma)],
               Semicolon)

\* parseWithLines' function of the entries of one line, taking an entry of
\* any number of integers.
RECURSIVE parseEntries_AnyArity(_, _, _, _, _)
parseEntries_AnyArity(entries, k, sourceLine, sourceColumn, acc) ==
  IF k > Len(entries)
  THEN [error |-> "", line |-> acc, sourceLine |-> sourceLine,
        sourceColumn |-> sourceColumn]
  ELSE LET d == decodeVLQ(entries[k])
           result == d.result
       IN IF d.error # ""
          THEN [error |-> d.error, line |-> <<>>, sourceLine |-> sourceLine,
                sourceColumn |-> sourceColumn]
          ELSE IF Len(result) \in {4, 5}
          THEN parseEntries_AnyArity(entries, k + 1, sourceLine + result[3],
                            sourceColumn + result[4],
                            Append(acc,
                              [result EXCEPT ![3] = sourceLine + result[3],
                                             ![4] = sourceColumn + result[4]]))
          ELSE parseEntries_AnyArity(entries, k + 1, sourceLine, sourceColumn,
                                     Append(acc, result))

\* parseWithLines' function of the entries of one line, from entry k on:
\* the error thrown or the resolved entries, and the running source line
\* and column.
RECURSIVE parseEntries(_, _, _, _, _)
parseEntries(entries, k, sourceLine, sourceColumn, acc) ==
  IF k > Len(entries)
  THEN [error |-> "", line |-> acc, sourceLine |-> sourceLine,
        sourceColumn |-> sourceColumn]
  ELSE LET d == decodeVLQ(entries[k])
           result == d.result
       IN IF d.error # ""
          THEN [error |-> d.error, line |-> <<>>, sourceLine |-> sourceLine,
                sourceColumn |-> sourceColumn]
          ELSE IF Len(result) = 1
          THEN parseEntries(entries, k + 1, sourceLine, sourceColumn,
                            Append(acc, result))
          ELSE IF Len(result) \in {4, 5}
          THEN parseEntries(entries, k + 1, sourceLine + result[3],
                            sourceColumn + result[4],
                            Append(acc,
                              [result EXCEPT ![3] = sourceLine + result[3],
                                             ![4] = sourceColumn + result[4]]))
          ELSE [error |-> "Unknown source map entry", line |-> <<>>,
                sourceLine |-> sourceLine, sourceColumn |-> sourceColumn]

\* parseWithLines' function of the lines, from line i on
RECURSIVE parseLines(_, _, _, _, _)
parseLines(lineTexts, i, sourceLine, sourceColumn, acc) ==
  IF i > Len(lineTexts) THEN [error |-> "", lines |-> acc]
  ELSE IF Len(lineTexts[i]) = 0
  THEN parseLines(lineTexts, i + 1, sourceLine, sourceColumn,
                  Append(acc, <<>>))
  ELSE LET r == parseEntries(Split(lineTexts[i], Comma), 1, sourceLine,
                             sourceColumn, <<>>)
       IN IF r.error # "" THEN [error |-> r.error, lines |-> <<>>]
          ELSE parseLines(lineTexts, i + 1, r.sourceLine, r.sourceColumn,
                          Append(acc, r.line))

\* SourceMap.parseWithLines of a document whose mappings are the string
\* given: the error thrown, or the lines.
parseWithLines(mappings) ==
  parseLines(Split(mappings, Semicolon), 1, 0, 0, <<>>)

\* Entries of map documents (source line and column as deltas).
DeltaEntries ==
  {<<d>> : d \in GenColDeltas}
    \cup {<<d, 0, src[1], src[2]>> :
            d \in GenColDeltas, src \in {<<0, 0>>, <<0, 1>>, <<1, 0>>}}
    \cup {<<0, 0, 1, -1>>, <<2, 0, 0, 1, 0>>, <<0, 0, 1, 0, 1>>}

\* The mappings string of a document with the given entries.
MappingsOf(raw) ==
  Join([i \in 1..Len(raw) |->
          Join([j \in 1..Len(raw[i]) |->
                  Concat([n \in 1..Len(raw[i][j]) |->
                            encodeVlq(raw[i][j][n])])],
               Comma)],
       Semicolon)

\* The documents of the model with segments of 1, 4 or 5 integers.
ValidMappings(Entries) == {MappingsOf(raw) : raw \in Maps(Entries)}

\* Segments no document may have: "=", " ", a character that is not ASCII,
\* "A=AA", "g" and "AAAg" (a continuation that does not end), "AA", "AAA"
\* and "AAAAAA" (2, 3 and 6 numbers).
BadSegments ==
  { <<61>>, <<32>>, <<233>>, <<65, 61, 65, 65>>, <<103>>,
    <<65, 65, 65, 103>>, <<65, 65>>, <<65, 65, 65>>,
    <<65, 65, 65, 65, 65, 65>> }

\* Documents with such a segment, alone or next to the segment "AAAA", and
\* documents with an empty segment next to a comma.
MalformedMappings ==
  LET good == <<65, 65, 65, 65>>
  IN UNION {{bad, good \o <<Comma>> \o bad, bad \o <<Comma>> \o good,
             good \o <<Semicolon>> \o bad} : bad \in BadSegments}
       \cup {<<Comma>>, good \o <<Comma>>, <<Comma>> \o good,
             good \o <<Comma, Comma>> \o good}

VARIABLES
  mappings,   \* the mappings string of the document parsed
  parsed,     \* parseWithLines' result
  rendered,   \* renderMappings' result on the parsed lines
  reparsed,   \* parseWithLines' result on the rendered string
  parsePc     \* "parse", "failed", "parsed", "rendered", "reparsed"

parseVars == <<mappings, parsed, rendered, reparsed, parsePc>>

NotParsed == [error |-> "", lines |-> <<>>]

ParseIdle ==
  /\ mappings = <<>>
  /\ parsed = NotParsed
  /\ rendered = <<>>
  /\ reparsed = NotParsed
  /\ parsePc = "idle"

ParseInit ==
  /\ mappings \in ValidMappings(DeltaEntries) \cup MalformedMappings
  /\ parsed = NotParsed
  /\ rendered = <<>>
  /\ reparsed = NotParsed
  /\ parsePc = "parse"

ParseWithLines ==
  /\ parsePc = "parse"
  /\ parsed' = parseWithLines(mappings)
  /\ parsePc' = IF parseWithLines(mappings).error # "" THEN "failed"
                ELSE "parsed"
  /\ UNCHANGED <<mappings, rendered, reparsed>>

RenderMappings ==
  /\ parsePc = "parsed"
  /\ rendered' = renderMappings(parsed.lines)
  /\ parsePc' = "rendered"
  /\ UNCHANGED <<mappings, parsed, reparsed>>

ParseRendered ==
  /\ parsePc = "rendered"
  /\ reparsed' = parseWithLines(rendered)
  /\ parsePc' = "reparsed"
  /\ UNCHANGED <<mappings, parsed, rendered>>

(***************************************************************************)
(* Source maps: the builder.  Strings are sequences of character codes;    *)
(* undefined is <<>> and a defined number n is <<n>>.                      *)
(***************************************************************************)
\* "\n" and "\r"
LF == 10 + 0
CR == 13 + 0

\* The end of the run of characters other than "\r" and "\n" that starts
\* after position pos (zero-based) of input.
RECURSIVE RunEnd(_, _)
RunEnd(input, pos) ==
  IF pos >= Len(input) \/ input[pos + 1] \in {LF, CR} THEN pos
  ELSE RunEnd(input, pos + 1)

\* The length of the line terminator at position pos of input: "\r\n", "\r",
\* "\n", or nothing at the end of input.
TerminatorLength(input, pos) ==
  IF pos >= Len(input) THEN 0
  ELSE IF input[pos + 1] = CR /\ pos + 1 < Len(input) /\ input[pos + 2] = LF
  THEN 2
  ELSE 1

\* locationTable's loop from position pos on
RECURSIVE locationFrom(_, _, _)
locationFrom(input, pos, lines) ==
  LET e == RunEnd(input, pos)
      next == e + TerminatorLength(input, e)
  IN IF next = Len(input) THEN Append(lines, next)
     ELSE locationFrom(input, next, Append(lines, next))

\* locationTable(input)
locationTable(input) == locationFrom(input, 0, <<>>)

\* lookupLineColumn's loop, stopping at the first table entry at or after
\* pos
RECURSIVE lookupFrom_Strict(_, _, _, _)
lookupFrom_Strict(table, pos, l, prevEnd) ==
  IF l + 1 \in DOMAIN table /\ table[l + 1] < pos
  THEN lookupFrom_Strict(table, pos, l + 1, table[l + 1])
  ELSE <<l, pos - prevEnd>>

\* lookupLineColumn's loop
RECURSIVE lookupFrom(_, _, _, _)
lookupFrom(table, pos, l, prevEnd) ==
  IF l + 1 \in DOMAIN table /\ table[l + 1] <= pos
  THEN lookupFrom(table, pos, l + 1, table[l + 1])
  ELSE <<l, pos - prevEnd>>

\* lookupLineColumn(table, pos): <<line, column>>
lookupLineColumn(table, pos) == lookupFrom(table, pos, 0, 0)

\* outputStr.split(EOL), EOL being /\r?\n|\r/
RECURSIVE SplitEOLFrom(_, _, _)
SplitEOLFrom(str, pos, piece) ==
  IF pos >= Len(str) THEN <<piece>>
  ELSE IF str[pos + 1] \in {LF, CR}
  THEN <<piece>> \o SplitEOLFrom(str, pos + TerminatorLength(str, pos), <<>>)
  ELSE SplitEOLFrom(str, pos + 1, Append(piece, str[pos + 1]))

SplitEOL(str) == SplitEOLFrom(str, 0, <<>>)

\* updateSourceMap's loop keeping the builder's colOffset across the line
\* terminators of the chunk.
RECURSIVE updateFrom_KeepsOffset(_, _, _, _, _, _, _)
updateFrom_KeepsOffset(B, outLines, i, inputPos, colOffset, srcLine, srcCol) ==
  IF i >= Len(outLines) THEN B
  ELSE LET line == outLines[i + 1]
           B1 == IF i > 0
                 THEN [B EXCEPT !.line = @ + 1,
                                !.srcLine = @ + 1,
                                !.lines = Append(@, <<>>),
                                !.srcColumn = colOffset]
                 ELSE B
           srcCol1 == IF i > 0 THEN <<colOffset>> ELSE srcCol
           l == B1.colOffset
           B2 == [B1 EXCEPT !.colOffset = Len(line),
                            !.srcColumn = @ + Len(line)]
           B3 == IF inputPos # <<>>
                 THEN [B2 EXCEPT !.lines[B2.line + 1] =
                         Append(@, <<l, 0, srcLine[1] + i, srcCol1[1]>>)]
                 ELSE IF l # 0
                 THEN [B2 EXCEPT !.lines[B2.line + 1] = Append(@, <<l>>)]
                 ELSE B2
       IN updateFrom_KeepsOffset(B3, outLines, i + 1, inputPos, colOffset, srcLine,
                     srcCol1)

\* updateSourceMap's loop over outLines from line i (zero-based) on.  B is
\* the builder: [lines, line, colOffset, srcLine, srcColumn]; srcLine and
\* srcCol are the function's locals.
RECURSIVE updateFrom(_, _, _, _, _, _, _)
updateFrom(B, outLines, i, inputPos, colOffset, srcLine, srcCol) ==
  IF i >= Len(outLines) THEN B
  ELSE LET line == outLines[i + 1]
           B1 == IF i > 0
                 THEN [B EXCEPT !.line = @ + 1,
                                !.srcLine = @ + 1,
                                !.colOffset = 0,
                                !.lines = Append(@, <<>>),
                                !.srcColumn = colOffset]
                 ELSE B
           srcCol1 == IF i > 0 THEN <<colOffset>> ELSE srcCol
           l == B1.colOffset
           B2 == [B1 EXCEPT !.colOffset = Len(line),
                            !.srcColumn = @ + Len(line)]
           B3 == IF inputPos # <<>>
                 THEN [B2 EXCEPT !.lines[B2.line + 1] =
                         Append(@, <<l, 0, srcLine[1] + i, srcCol1[1]>>)]
                 ELSE IF l # 0
                 THEN [B2 EXCEPT !.lines[B2.line + 1] = Append(@, <<l>>)]
                 ELSE B2
       IN updateFrom(B3, outLines, i + 1, inputPos, colOffset, srcLine,
                     srcCol1)

\* updateSourceMap(outputStr, inputPos, colOffset) on the builder B with
\* location table srcTable
updateSourceMap(B, srcTable, outputStr, inputPos, colOffset) ==
  LET at == lookupLineColumn(srcTable, inputPos[1])
      B0 == IF inputPos # <<>>
            THEN [B EXCEPT !.srcLine = at[1], !.srcColumn = at[2] + colOffset]
            ELSE B
      srcLine == IF inputPos # <<>> THEN <<at[1]>> ELSE <<>>
      srcCol == IF inputPos # <<>> THEN <<at[2] + colOffset>> ELSE <<>>
  IN updateFrom(B0, SplitEOL(outputStr), 0, inputPos, colOffset, srcLine,
                srcCol)

\* The sources maps are built over: "ab\ncd" and "a\r\nb\rc".
Sources == { <<97, 98, 10, 99, 100>>, <<97, 13, 10, 98, 13, 99>> }

\* The chunks of output: "", "ab", "a\nb", "\r\n", "c\r" and "\nb".
OutputStrs ==
  { <<>>, <<97, 98>>, <<97, 10, 98>>, <<13, 10>>, <<99, 13>>, <<10, 98>> }

\* The source positions passed: none, 0 and 4.
InputPositions == { <<>>, <<0>>, <<4>> }

VARIABLES
  source,     \* SourceMap.source
  srcTable,   \* SourceMap.srcTable
  builder,    \* SourceMap.lines, line, colOffset, srcLine, srcColumn
  output,     \* the chunks passed to updateSourceMap so far, concatenated
  updates     \* how many updateSourceMap calls were made

builderVars == <<source, srcTable, builder, output, updates>>

\* new SourceMap(source)
SourceMapNew ==
  [lines |-> << <<>> >>, line |-> 0, colOffset |-> 0, srcLine |-> 0,
   srcColumn |-> 0]

BuilderIdle ==
  /\ source = <<>>
  /\ srcTable = <<>>
  /\ builder = SourceMapNew
  /\ output = <<>>
  /\ updates = 0

BuilderInit ==
  /\ source \in Sources
  /\ srcTable = locationTable(source)
  /\ builder = SourceMapNew
  /\ output = <<>>
  /\ updates = 0

UpdateSourceMap(outputStr, inputPos, colOffset) ==
  /\ updates < MaxUpdates
  /\ builder' = updateSourceMap(builder, srcTable, outputStr, inputPos,
                                colOffset)
  /\ output' = output \o outputStr
  /\ updates' = updates + 1
  /\ UNCHANGED <<source, srcTable>>

(***************************************************************************)
(* Source maps: remap.  Code is the sequence of its character codes, all    *)
(* below 128, so that its UTF-8 bytes are its character codes.              *)
(***************************************************************************)
\* The least element of a set of integers that is not empty.
Least(set) == CHOOSE i \in set : \A k \in set : i <= k

\* The first index from i on where str has a character of the set, or
\* Len(str) + 1.
IndexOfAny(str, i, set) ==
  LET at == {k \in i..Len(str) : str[k] \in set}
  IN IF at = {} THEN Len(str) + 1 ELSE Least(at)

\* The first index from i on where str has a character outside the set, or
\* Len(str) + 1.
RunOf(str, i, set) ==
  LET at == {k \in i..Len(str) : str[k] \notin set}
  IN IF at = {} THEN Len(str) + 1 ELSE Least(at)

\* The characters of [+a-zA-Z0-9\/] and those of \s below 128.
Base64Class == {c \in 0..127 : vlqTable[c] # 255}
SpaceClass == {9, 10, 11, 12, 13, 32}

\* The character values of a base64 string up to its padding, as
\* Buffer.from(str, "base64") reads them: characters outside the alphabet
\* are skipped.
base64Sextets(str) ==
  LET data == SubSeq(str, 1, IndexOfAny(str, 1, {61}) - 1)
      InAlphabet(c) == c \in Base64Class
      chars == SelectSeq(data, InAlphabet)
  IN [k \in 1..Len(chars) |-> vlqTable[chars[k]]]

\* The bytes of the sextets sx: three bytes of four sextets, two of three at
\* the end, one of two, none of one.
base64Bytes(sx) ==
  LET n == Len(sx)
      rest == IF n % 4 = 3 THEN 2 ELSE IF n % 4 = 2 THEN 1 ELSE 0
  IN [k \in 1..((n \div 4) * 3 + rest) |->
        LET at == 4 * ((k - 1) \div 3) + 1
        IN CASE (k - 1) % 3 = 0 -> sx[at] * 4 + (sx[at + 1] \div 16)
             [] (k - 1) % 3 = 1 ->
                  (sx[at + 1] % 16) * 16 + (sx[at + 2] \div 4)
             [] OTHER -> (sx[at + 2] % 4) * 64 + sx[at + 3]]

\* Buffer.from(str, "base64").toString("utf8")
base64Decode(str) == base64Bytes(base64Sextets(str))

\* Buffer.from(src).toString("base64"): four characters of three bytes, "="
\* in the place of the characters of missing bytes.
base64Encode(src) ==
  LET n == Len(src)
      byte(j) == IF j <= n THEN src[j] ELSE 0
  IN [k \in 1..(((n + 2) \div 3) * 4) |->
        LET at == 3 * ((k - 1) \div 4) + 1
        IN CASE (k - 1) % 4 = 0 -> BASE64_CHARS[(byte(at) \div 4) + 1]
             [] (k - 1) % 4 = 1 ->
                  BASE64_CHARS[(byte(at) % 4) * 16
                                 + (byte(at + 1) \div 16) + 1]
             [] (k - 1) % 4 = 2 ->
                  IF at + 1 > n THEN 61
                  ELSE BASE64_CHARS[(byte(at + 1) % 16) * 4
                                      + (byte(at + 2) \div 64) + 1]
             [] OTHER ->
                  IF at + 2 > n THEN 61
                  ELSE BASE64_CHARS[(byte(at + 2) % 64) + 1]]

\* JSON.stringify of a string: the quotation mark, the backslash and the
\* line feed escaped, between quotation marks.
RECURSIVE jsonEscape(_, _)
jsonEscape(str, i) ==
  IF i > Len(str) THEN <<>>
  ELSE (IF str[i] \in {34, 92} THEN <<92, str[i]>>
        ELSE IF str[i] = 10 THEN <<92, 110>>
        ELSE <<str[i]>>) \o jsonEscape(str, i + 1)

jsonString(str) == <<34>> \o jsonEscape(str, 1) \o <<34>>

\* The text JSON.stringify writes around the members' values of
\* SourceMap.json's object; toString, a function, is not written.
\* {"version":3,"file":
KeyVersion ==
  <<123, 34, 118, 101, 114, 115, 105, 111, 110, 34, 58, 51, 44, 34, 102,
    105, 108, 101, 34, 58>>
\* ,"sources":[
KeySources ==
  <<44, 34, 115, 111, 117, 114, 99, 101, 115, 34, 58, 91>>
\* ],"mappings":
KeyMappings ==
  <<93, 44, 34, 109, 97, 112, 112, 105, 110, 103, 115, 34, 58>>
\* ,"names":[],"sourcesContent":[
KeyNames ==
  <<44, 34, 110, 97, 109, 101, 115, 34, 58, 91, 93, 44, 34, 115, 111, 117,
    114, 99, 101, 115, 67, 111, 110, 116, 101, 110, 116, 34, 58, 91>>
\* ]}
KeyEnd ==
  <<93, 125>>

\* JSON.stringify of an object {version: 3, file, sources: [src], mappings,
\* names: [], sourcesContent: [content]}.
jsonDocument(file, src, mappingsStr, content) ==
  KeyVersion \o jsonString(file) \o KeySources \o jsonString(src)
    \o KeyMappings \o jsonString(mappingsStr) \o KeyNames
    \o jsonString(content) \o KeyEnd

\* JSON.stringify(upstreamMap.json(srcFileName, outFileName)) for the map
\* M = [source, lines].
jsonStringify(M, srcFileName, outFileName) ==
  jsonDocument(outFileName, srcFileName, renderMappings(M.lines), M.source)

\* //# sourceMappingURL=data:application/json;
CommentStart ==
  <<47, 47, 35, 32, 115, 111, 117, 114, 99, 101, 77, 97, 112, 112, 105,
    110, 103, 85, 82, 76, 61, 100, 97, 116, 97, 58, 97, 112, 112, 108, 105,
    99, 97, 116, 105, 111, 110, 47, 106, 115, 111, 110, 59>>
\* charset=
CommentCharset ==
  <<99, 104, 97, 114, 115, 101, 116, 61>>
\* base64,
CommentBase64 ==
  <<98, 97, 115, 101, 54, 52, 44>>

\* SourceMap.comment(srcFileName, outFileName)
comment(M, srcFileName, outFileName) ==
  CommentStart \o CommentBase64
    \o base64Encode(jsonStringify(M, srcFileName, outFileName))

\* str has the literal lit at index i.
StartsWithAt(str, i, lit) ==
  /\ i + Len(lit) - 1 <= Len(str)
  /\ SubSeq(str, i, i + Len(lit) - 1) = lit

\* smRegexp is anchored at the end of the string, and at each of its choices
\* at most one alternative can go on, so a match is followed without
\* backtracking.  A result is [ok, sm], sm the text of the group.
NoMatch == [ok |-> FALSE, sm |-> <<>>]

\* (?:\s*)$ at index groupEnd, the group having started at index group
smSpace(str, group, groupEnd) ==
  IF RunOf(str, groupEnd, SpaceClass) > Len(str)
  THEN [ok |-> TRUE, sm |-> SubSeq(str, group, groupEnd - 1)]
  ELSE NoMatch

\* =?=? at index pad: the index after it
smPadding(str, pad) ==
  IF StartsWithAt(str, pad, <<61, 61>>) THEN pad + 2
  ELSE IF StartsWithAt(str, pad, <<61>>) THEN pad + 1
  ELSE pad

\* base64,([+a-zA-Z0-9\/]*=?=?) at index at, 0 if the pattern has failed
smBase64(str, at) ==
  IF at # 0 /\ StartsWithAt(str, at, CommentBase64)
  THEN smSpace(str, at + Len(CommentBase64),
               smPadding(str, RunOf(str, at + Len(CommentBase64),
                                    Base64Class)))
  ELSE NoMatch

\* (?:charset=[^;]*;)? at index at: the index after it, 0 if charset= has no
\* semicolon after it
smCharset(str, at, semi) ==
  IF ~StartsWithAt(str, at, CommentCharset) THEN at
  ELSE IF semi <= Len(str) THEN semi + 1
  ELSE 0

\* \/\/# sourceMappingURL=data:application\/json; at index at, 0 if the
\* pattern has failed
smStart(str, at) ==
  IF at # 0 /\ StartsWithAt(str, at, CommentStart)
  THEN smBase64(str, smCharset(str, at + Len(CommentStart),
                               IndexOfAny(str, at + Len(CommentStart)
                                                 + Len(CommentCharset),
                                          {59})))
  ELSE NoMatch

\* (?:\r?\n|\r) at index i: the index after it, 0 if there is none
smEOL(str, i) ==
  IF StartsWithAt(str, i, <<CR, LF>>) THEN i + 2
  ELSE IF i <= Len(str) /\ str[i] \in {LF, CR} THEN i + 1
  ELSE 0

\* smRegexp tried at index i of str
smRegexpAt(str, i) == smStart(str, smEOL(str, i))

\* The match of smRegexp at the first of the indices where it matches:
\* [found, index, sm].
smFirst(str, at) ==
  IF at = {} THEN [found |-> FALSE, index |-> 0, sm |-> <<>>]
  ELSE [found |-> TRUE, index |-> Least(at),
        sm |-> smRegexpAt(str, Least(at)).sm]

\* The first match of smRegexp in str
smRegexp(str) ==
  smFirst(str, {i \in 1..Len(str) : str[i] \in {LF, CR}
                                      /\ smRegexpAt(str, i).ok})

\* JSON.parse of a document and its member mappings, for the documents that
\* JSON.stringify writes of SourceMap.json's object (no member before
\* mappings holds the text of KeyMappings): [error, mappings].  Any other
\* text is an error, of JSON.parse or of the call of split on a member
\* that is missing.
jsonParseMappings(text) ==
  LET keys == {i \in 1..Len(text) : StartsWithAt(text, i, KeyMappings)}
      from == Least(keys) + Len(KeyMappings)
      to == IndexOfAny(text, from + 1, {34})
  IN IF /\ StartsWithAt(text, 1, KeyVersion)
        /\ keys # {}
        /\ from <= Len(text) /\ text[from] = 34
        /\ to <= Len(text)
        /\ StartsWithAt(text, to + 1, KeyNames)
        /\ StartsWithAt(text, Len(text) - Len(KeyEnd) + 1, KeyEnd)
     THEN [error |-> "", mappings |-> SubSeq(text, from + 1, to - 1)]
     ELSE [error |-> "SyntaxError", mappings |-> <<>>]

\* SourceMap.parseWithLines(base64encodedJSONstr): [error, lines]
parseBase64(base64encodedJSONstr) ==
  LET json == jsonParseMappings(base64Decode(base64encodedJSONstr))
  IN IF json.error # "" THEN [error |-> json.error, lines |-> <<>>]
     ELSE parseWithLines(json.mappings)

\* SourceMap.remap's last statements: the code returned, [threw,
\* upstreamMap, code] with upstreamMap the map after the call.
remapReturn(codeWithoutSourceMap, upstreamMap, sourcePath, targetPath) ==
  [threw |-> FALSE, upstreamMap |-> upstreamMap,
   code |-> codeWithoutSourceMap \o <<LF>>
              \o comment(upstreamMap, sourcePath, targetPath)]

\* SourceMap.remap after parseWithLines, which has thrown or returned
\* parsedMap.
remapParsed(codeWithoutSourceMap, parsedMap, upstreamMap, sourcePath, targetPath) ==
  IF parsedMap.error # ""
  THEN [threw |-> TRUE, upstreamMap |-> upstreamMap, code |-> <<>>]
  ELSE remapReturn(codeWithoutSourceMap,
                   [upstreamMap EXCEPT
                      !.lines = composeLines(upstreamMap.lines,
                                             parsedMap.lines)],
                   sourcePath, targetPath)

\* SourceMap.remap after the replace: sourceMapText is match.sm if smRegexp
\* has matched and undefined if not, and is falsy when undefined or the
\* empty string.
remapMatch(code, match, upstreamMap, sourcePath, targetPath) ==
  IF match.found /\ match.sm # <<>>
  THEN remapParsed(SubSeq(code, 1, match.index - 1), parseBase64(match.sm),
                   upstreamMap, sourcePath, targetPath)
  ELSE remapReturn(IF match.found THEN SubSeq(code, 1, match.index - 1)
                   ELSE code,
                   upstreamMap, sourcePath, targetPath)

\* SourceMap.remap(codeWithSourceMap, upstreamMap, sourcePath, targetPath)
remap(code, upstreamMapArg, sourcePath, targetPath) ==
  remapMatch(code, smRegexp(code), upstreamMapArg, sourcePath, targetPath)

\* The inputs of remap: code with or without a comment, and upstream maps.
RemapSourcePath == <<97, 46, 99, 105, 118, 101, 116>>
RemapTargetPath == <<97, 46, 116, 115>>
Bodies == {<<>>, <<120, 59>>}

\* The mappings of embedded maps: AAAA, AAAA,CAAE, ;AACA, A, AAAAA, and AA,
\* which parseWithLines rejects.
EmbeddedMappings ==
  {<<65, 65, 65, 65>>, <<65, 65, 65, 65, 44, 67, 65, 65, 69>>, <<59, 65, 65, 67, 65>>, <<65>>, <<65, 65, 65, 65, 65>>, <<65, 65>>}

\* The texts after "base64,": embedded maps, no text, and a text that is
\* not the base64 of a JSON document.
Payloads ==
  {base64Encode(jsonDocument(<<97, 46, 116, 115>>, <<97, 46, 106, 115>>, m, <<120, 59>>)) :
     m \in EmbeddedMappings}
    \cup {<<>>, <<65, 65, 65, 65>>}

\* What follows the body: nothing; a trailing comment after "\n", after
\* "\r\n" with a charset parameter and followed by white space, or after
\* "\r"; a comment with no line terminator before it; a comment that is not
\* the last line.
Tails ==
  {<<>>}
    \cup {<<LF>> \o CommentStart \o CommentBase64 \o p : p \in Payloads}
    \cup {<<CR, LF>> \o CommentStart \o CommentCharset \o <<117, 116, 102, 45, 56, 59>>
            \o CommentBase64 \o p \o <<32, LF>> : p \in Payloads}
    \cup {<<CR>> \o CommentStart \o CommentBase64 \o p : p \in Payloads}
    \cup {CommentStart \o CommentBase64 \o p : p \in Payloads}
    \cup {<<LF>> \o CommentStart \o CommentBase64 \o p \o <<LF>> \o <<120, 59>> :
            p \in Payloads}

CodesWithSourceMap == {b \o t : b \in Bodies, t \in Tails}

\* Upstream maps: a new SourceMap's lines, or lines as a compile left them.
UpstreamSourceMaps ==
  {[source |-> <<97, 98>>, lines |-> l] :
     l \in (UpstreamMaps \ {<<>>}) \cup {<< <<>> >>}}

VARIABLES
  codeWithSourceMap,  \* remap: the code passed
  upstreamMap,        \* remap: the upstream map, [source, lines]
  remappedCode,       \* <<>> before the call, then <<the code returned>>
  remapPc,            \* "call", "returned" or "threw"
  remaps              \* the number of calls of remap made

rewriteVars == <<codeWithSourceMap, upstreamMap, remappedCode, remapPc, remaps>>

RewriteIdle ==
  /\ codeWithSourceMap = <<>>
  /\ upstreamMap = [source |-> <<>>, lines |-> << <<>> >>]
  /\ remappedCode = <<>>
  /\ remapPc = "idle"
  /\ remaps = 0

RewriteInit ==
  /\ codeWithSourceMap \in CodesWithSourceMap
  /\ upstreamMap \in UpstreamSourceMaps
  /\ remappedCode = <<>>
  /\ remapPc = "call"
  /\ remaps = 0

\* A call of SourceMap.remap
Remap ==
  /\ remapPc = "call"
  /\ remaps < MaxRemaps
  /\ LET r == remap(codeWithSourceMap, upstreamMap, RemapSourcePath,
                    RemapTargetPath)
     IN /\ upstreamMap' = r.upstreamMap
        /\ remappedCode' = IF r.threw THEN <<>> ELSE <<r.code>>
        /\ remapPc' = IF r.threw THEN "threw" ELSE "returned"
  /\ remaps' = remaps + 1
  /\ UNCHANGED codeWithSourceMap

\* The caller passes the code returned to the next stage, which has its own
\* upstream map.
NextStage ==
  /\ remapPc = "returned"
  /\ remaps < MaxRemaps
  /\ codeWithSourceMap' = remappedCode[1]
  /\ upstreamMap' \in UpstreamSourceMaps
  /\ remappedCode' = <<>>
  /\ remapPc' = "call"
  /\ UNCHANGED remaps

(***************************************************************************)
(* Source maps: offset lookup.                                             *)
(***************************************************************************)
\* The inputs looked up in: the texts of at most MaxInputLen characters
\* "a", "\r" and "\n".
RECURSIVE InputsOfLength(_)
InputsOfLength(n) ==
  IF n = 0 THEN {<<>>}
  ELSE {Append(t, c) : t \in InputsOfLength(n - 1), c \in {97, CR, LF}}

LookupInputs == UNION {InputsOfLength(n) : n \in 0..MaxInputLen}

VARIABLES
  lookupInput,   \* the input string
  lookupPos,     \* the offset looked up
  lookupTable,   \* locationTable(input), <<>> before it is made
  lookupResult,  \* <<line, column>>, <<>> before the lookup
  lookupPc       \* "start", "table", "returned"

lookupVars == <<lookupInput, lookupPos, lookupTable, lookupResult, lookupPc>>

LookupIdle ==
  /\ lookupInput = <<>>
  /\ lookupPos = 0
  /\ lookupTable = <<>>
  /\ lookupResult = <<>>
  /\ lookupPc = "idle"

LookupInit ==
  /\ lookupInput \in LookupInputs
  /\ lookupPos \in 0..MaxInputLen
  /\ lookupTable = <<>>
  /\ lookupResult = <<>>
  /\ lookupPc = "start"

\* table := locationTable(input)
LocationTable ==
  /\ lookupPc = "start"
  /\ lookupTable' = locationTable(lookupInput)
  /\ lookupPc' = "table"
  /\ UNCHANGED <<lookupInput, lookupPos, lookupResult>>

\* lookupLineColumn(table, pos)
LookupLineColumn ==
  /\ lookupPc = "table"
  /\ lookupResult' = lookupLineColumn(lookupTable, lookupPos)
  /\ lookupPc' = "returned"
  /\ UNCHANGED <<lookupInput, lookupPos, lookupTable>>

(***************************************************************************)
(* Host: module resolution.  A module name, a pattern, a replacement and a *)
(* path are sequences of tokens: the letters "a", "b", "x", "y", the       *)
(* relative marker "./", the wildcard "*", an extension as the last token, *)
(* and, as the first token of a resolved path, the directory it was        *)
(* resolved against.                                                       *)
(***************************************************************************)
\* the number of characters of a token
tokenLength(t) ==
  CASE t = ".civet" -> 6 [] t = ".tsx" -> 4 [] t = ".ts" -> 3
    [] t = "./" -> 2 [] OTHER -> 1

\* string.length
RECURSIVE stringLength(_)
stringLength(s) ==
  IF s = <<>> THEN 0 ELSE tokenLength(Head(s)) + stringLength(Tail(s))

\* getExtensionFromPath(name) of a module name
getExtensionFromName(name) ==
  IF name # <<>> /\ name[Len(name)] \in {".civet", ".ts"}
  THEN name[Len(name)] ELSE ""

\* ts.isExternalModuleNameRelative(name)
isExternalModuleNameRelative(name) == name # <<>> /\ name[1] = "./"

\* string.startsWith(prefix)
startsWith(s, prefix) ==
  Len(prefix) <= Len(s) /\ SubSeq(s, 1, Len(prefix)) = prefix

\* replacement.replace('*', tail): the first "*" replaced
replaceStar(replacement, tail) ==
  LET stars == {i \in 1..Len(replacement) : replacement[i] = "*"}
  IN IF stars = {} THEN replacement
     ELSE SubSeq(replacement, 1, Least(stars) - 1) \o tail
            \o SubSeq(replacement, Least(stars) + 1, Len(replacement))

\* path.resolve(base, rel) for the relative paths of the model
pathResolve(base, rel) ==
  IF rel # <<>> /\ rel[1] = "./" THEN <<base>> \o Tail(rel)
  ELSE <<base>> \o rel

\* sys.fileExists and sys.directoryExists: a file or directory exists when
\* the directory it lies in, below the base, is one of roots
sysExists(roots, resolved) == Len(resolved) > 1 /\ resolved[2] \in roots

\* the inner resolvedModule(resolved) of resolveModuleNames, for a name with
\* a transpiler's extension or with none; index tells whether the directory
\* has an index file of the transpiler
resolvedModule(ts, extension, index, resolved) ==
  LET transpiler == transpilersGet(ts, extension)
  IN IF transpiler = <<>>
     THEN IF index
          THEN <<[resolvedFileName |-> resolved \o <<"index", ".civet", ts[".civet"]>>,
                  extension |-> ts[".civet"],
                  isExternalLibraryImport |-> FALSE]>>
          ELSE <<>>
     ELSE <<[resolvedFileName |-> Append(resolved, transpiler[1]),
             extension |-> transpiler[1],
             isExternalLibraryImport |-> FALSE]>>

\* one candidate of the path-mapping loop compared with the best so far:
\* if (exists(resolved) && prefix.length > bestPrefix.length)
betterCandidate(roots, resolved, length, bst) ==
  IF sysExists(roots, resolved) /\ length > bst.bestPrefix
  THEN [best |-> resolved, bestPrefix |-> length]
  ELSE bst

\* the loop over the replacements of one matching pattern, from the i-th on
RECURSIVE tryReplacements(_, _, _, _, _, _, _)
tryReplacements(roots, pathsBase, replacements, i, tail, length, bst) ==
  IF i > Len(replacements) THEN bst
  ELSE tryReplacements(roots, pathsBase, replacements, i + 1, tail, length,
         betterCandidate(roots,
           pathResolve(pathsBase, replaceStar(replacements[i], tail)),
           length, bst))

\* the loop over Object.entries(paths), from the i-th entry on
RECURSIVE tryLoadModuleUsingPaths(_, _, _, _, _, _)
tryLoadModuleUsingPaths(roots, pathsBase, paths, i, name, bst) ==
  IF i > Len(paths) THEN bst
  ELSE
    LET pattern == paths[i].pattern
        replacements == paths[i].replacements
        prefix == SubSeq(pattern, 1, Len(pattern) - 1)
    IN tryLoadModuleUsingPaths(roots, pathsBase, paths, i + 1, name,
         IF pattern # <<>> /\ pattern[Len(pattern)] = "*"
         THEN IF startsWith(name, prefix)
              THEN tryReplacements(roots, pathsBase, replacements, 1,
                     SubSeq(name, Len(prefix) + 1, Len(name)),
                     stringLength(prefix), bst)
              ELSE bst
         ELSE IF name = pattern
              THEN tryReplacements(roots, pathsBase, replacements, 1, <<>>,
                     stringLength(pattern), bst)
              ELSE bst)

\* baseUrl ?? (pathsBasePath || cwd)
getPathsBase(settings) ==
  IF settings.baseUrl # <<>> THEN settings.baseUrl[1]
  ELSE IF settings.pathsBasePath # <<>> THEN settings.pathsBasePath[1]
  ELSE "cwd"

\* the backup resolver: the name resolved against the containing file's
\* directory
resolveBackup(ts, roots, index, name) ==
  LET resolved == pathResolve("dir", name)
  IN IF sysExists(roots, resolved)
     THEN resolvedModule(ts, getExtensionFromName(name), index, resolved)
     ELSE <<>>

\* tryLoadModuleUsingBaseUrl, then the backup resolver
resolveBaseUrl(ts, settings, roots, index, name) ==
  IF settings.baseUrl # <<>>
       /\ sysExists(roots, pathResolve(settings.baseUrl[1], name))
  THEN resolvedModule(ts, getExtensionFromName(name), index,
         pathResolve(settings.baseUrl[1], name))
  ELSE resolveBackup(ts, roots, index, name)

\* the module ts.resolveModuleName answers with when it resolves the name
nativeModule(name) ==
  [resolvedFileName |-> <<"node_modules">> \o name,
   extension |-> ".d.ts",
   isExternalLibraryImport |-> TRUE]

\* resolveModuleNames([name], containingFile, ...)[0]; native tells whether
\* ts.resolveModuleName resolves the name
resolveModuleName(ts, settings, roots, index, native, name) ==
  LET extension == getExtensionFromName(name)
      bst == tryLoadModuleUsingPaths(roots, getPathsBase(settings),
               settings.paths[1], 1, name, [best |-> <<>>, bestPrefix |-> 0])
  IN IF native THEN <<nativeModule(name)>>
     ELSE IF ~(extension \in DOMAIN ts \/ extension = "") THEN <<>>
     ELSE IF isExternalModuleNameRelative(name)
          THEN resolveBackup(ts, roots, index, name)
     ELSE IF settings.paths # <<>> /\ bst.best # <<>>
          THEN resolvedModule(ts, extension, index, bst.best)
     ELSE resolveBaseUrl(ts, settings, roots, index, name)

\* The module names imported.
ModuleNames ==
  {<<"a", ".civet">>, <<"b", ".civet">>, <<"a">>, <<"a", ".ts">>,
   <<"./", "a", ".civet">>}

\* The patterns of the path mappings: the catch-all, a prefix and an exact
\* pattern.
Patterns == {<<"*">>, <<"a", "*">>, <<"a", ".civet">>}

\* The replacements of a pattern.
Replacements == {<<"x", "*">>, <<"y", "*">>}

\* the lists of at most n distinct elements of a set
RECURSIVE ListsOf(_, _)
ListsOf(set, n) ==
  IF n = 0 THEN {<<>>}
  ELSE LET shorter == ListsOf(set, n - 1)
       IN shorter \cup
            {Append(l, e) : l \in {s \in shorter : Len(s) = n - 1},
                            e \in set}

\* compilerOptions.paths: at most MaxPatterns patterns, each with one to
\* MaxReplacements replacements
PathMappings ==
  LET entries == {[pattern |-> p, replacements |-> r] :
                    p \in Patterns,
                    r \in {l \in ListsOf(Replacements, MaxReplacements) :
                             /\ l # <<>>
                             /\ \A i, j \in 1..Len(l) : i # j => l[i] # l[j]}}
  IN {l \in ListsOf(entries, MaxPatterns) :
        \A i, j \in 1..Len(l) : i # j => l[i].pattern # l[j].pattern}

\* compilationSettings: baseUrl, paths and pathsBasePath
CompilationSettings ==
  {[baseUrl |-> b[1], pathsBasePath |-> b[2], paths |-> p] :
     b \in {<<<<>>, <<>>>>, <<<<"base">>, <<>>>>, <<<<>>, <<"cfg">>>>},
     p \in {<<>>} \cup {<<m>> : m \in PathMappings}}

\* The directories, below any base, whose files exist.
SysRoots == SUBSET {"x", "y", "a"}

VARIABLES
  moduleName,           \* the name to resolve
  compilationSettings,  \* the host's compilationSettings
  sysRoots,             \* the file system: the directories with files
  sysIndex,             \* the file system: directories have an index file
  tsResolves,           \* ts.resolveModuleName resolves the name
  resolution,           \* the answer: <<>> is undefined, <<m>> a module
  resolvePc             \* "start", then "returned"

resolveVars ==
  <<moduleName, compilationSettings, sysRoots, sysIndex, tsResolves,
    resolution, resolvePc>>

ResolveIdle ==
  /\ moduleName = <<>>
  /\ compilationSettings = [baseUrl |-> <<>>, pathsBasePath |-> <<>>, paths |-> <<>>]
  /\ sysRoots = {}
  /\ sysIndex = FALSE
  /\ tsResolves = FALSE
  /\ resolution = <<>>
  /\ resolvePc = "idle"

\* a host with its settings, a file system and an import to resolve
ResolveInit ==
  /\ moduleName \in ModuleNames
  /\ compilationSettings \in CompilationSettings
  /\ sysRoots \in SysRoots
  /\ sysIndex \in BOOLEAN
  /\ tsResolves \in BOOLEAN
  /\ resolution = <<>>
  /\ resolvePc = "start"

\* host.resolveModuleNames([moduleName], containingFile, ...)
ResolveModuleNames ==
  /\ resolvePc = "start"
  /\ resolution' = resolveModuleName(transpilerDefinitions, compilationSettings,
                     sysRoots, sysIndex, tsResolves, moduleName)
  /\ resolvePc' = "returned"
  /\ UNCHANGED <<moduleName, compilationSettings, sysRoots, sysIndex, tsResolves>>

(***************************************************************************)
(* Host: snapshots' change ranges.  A text is the sequence of its           *)
(* character codes; undefined is <<>> and a range r is <<r>>.               *)
(***************************************************************************)
\* fullDiffTextChangeRange's inner loop from i on: the number of characters
\* the two texts have in common at their ends, stop at most.
RECURSIVE diffSuffix(_, _, _, _)
diffSuffix(oldText, newText, stop, i) ==
  IF i >= stop \/ oldText[Len(oldText) - i] # newText[Len(newText) - i]
  THEN i
  ELSE diffSuffix(oldText, newText, stop, i + 1)

\* fullDiffTextChangeRange's range for the first index, start, where the
\* texts differ, with newLength equal to length.
diffRange_SameLength(oldText, newText, start, minLength) ==
  LET end == Len(oldText)
               - diffSuffix(oldText, newText, minLength - start, 0)
  IN [start |-> start, length |-> end - start, newLength |-> end - start]

\* fullDiffTextChangeRange's range for the first index, start, where the
\* texts differ.
diffRange(oldText, newText, start, minLength) ==
  LET end == Len(oldText)
               - diffSuffix(oldText, newText, minLength - start, 0)
      length == end - start
      newLength == length + (Len(newText) - Len(oldText))
  IN IF newLength < 0
     THEN [start |-> start, length |-> length - newLength, newLength |-> 0]
     ELSE [start |-> start, length |-> length, newLength |-> newLength]

\* fullDiffTextChangeRange(oldText, newText)
fullDiffTextChangeRange(oldText, newText) ==
  LET minLength == IF Len(oldText) < Len(newText) THEN Len(oldText)
                   ELSE Len(newText)
      differ == {start \in 0..(minLength - 1) :
                   oldText[start + 1] # newText[start + 1]}
  IN IF differ = {} THEN <<>>
     ELSE <<diffRange(oldText, newText, Least(differ), minLength)>>

\* The texts of snapshots: those of at most MaxTextLen characters "a", "b".
RECURSIVE TextsOfLength(_)
TextsOfLength(n) ==
  IF n = 0 THEN {<<>>}
  ELSE {Append(t, c) : t \in TextsOfLength(n - 1), c \in {97, 98}}

SnapTexts == UNION {TextsOfLength(n) : n \in 0..MaxTextLen}

VARIABLES
  oldText,       \* the text of the old snapshot
  newText,       \* the text of the snapshot asked, Snap(newText)
  changeRanges,  \* its map: <<>> if it has no entry for the old snapshot,
                 \* else <<value>>
  changeRange,   \* the value the last call returned (<<>> before any call)
  changeCalls    \* the number of calls of getChangeRange made

diffVars == <<oldText, newText, changeRanges, changeRange, changeCalls>>

DiffIdle ==
  /\ oldText = <<>>
  /\ newText = <<>>
  /\ changeRanges = <<>>
  /\ changeRange = <<>>
  /\ changeCalls = 0

\* Snap(newText), and a snapshot of some text to compare it with
DiffInit ==
  /\ oldText \in SnapTexts
  /\ newText \in SnapTexts
  /\ changeRanges = <<>>
  /\ changeRange = <<>>
  /\ changeCalls = 0

\* snapshot.getChangeRange(oldSnapshot), the first time
GetChangeRangeFirst ==
  /\ changeRanges = <<>>
  /\ changeCalls < MaxChangeCalls
  /\ changeRanges' = <<fullDiffTextChangeRange(oldText, newText)>>
  /\ changeRange' = changeRanges'[1]
  /\ changeCalls' = changeCalls + 1
  /\ UNCHANGED <<oldText, newText>>

\* snapshot.getChangeRange(oldSnapshot) when the map has the old snapshot
GetChangeRangeAgain ==
  /\ changeRanges # <<>>
  /\ changeCalls < MaxChangeCalls
  /\ changeRange' = changeRanges[1]
  /\ changeCalls' = changeCalls + 1
  /\ UNCHANGED <<oldText, newText, changeRanges>>

(***************************************************************************)
(* Specifications.                                                         *)
(***************************************************************************)
vars ==
  <<hostVars, remapVars, composeVars, vlqVars, parseVars, builderVars,
    rewriteVars,
    diffVars,
    resolveVars,
    lookupVars,
    servedVars>>

HostIdle ==
  /\ disk = EmptyDisk
  /\ docs = <<>>
  /\ pathMap = [p \in Paths |-> NoDoc]
  /\ snapshotMap = [p \in Paths |-> <<>>]
  /\ scriptFileNames = {}
  /\ fileMetaData = [p \in Paths |-> <<>>]
  /\ projectVersion = 0
  /\ transpilers = transpilerDefinitions
  /\ editor = [p \in EditorPaths |-> 0]
  /\ rising = [p \in EditorPaths |-> TRUE]
  /\ lastGood = <<>>

\* The host under the editor's and the TGT service's calls.
Init == HostInit /\ RemapIdle /\ ComposeIdle /\ VlqIdle /\ ParseIdle /\ BuilderIdle /\ RewriteIdle /\ DiffIdle /\ ResolveIdle /\ LookupIdle /\ ServedIdle
Next ==
  \/ /\ \E path \in EditorPaths : \E text \in TextsAt(path) :
          \E version \in 1..MaxVersion : OpenDocument(path, text, version)
     /\ UNCHANGED <<remapVars, composeVars, vlqVars, parseVars, builderVars, rewriteVars, diffVars, resolveVars, lookupVars, servedVars>>
  \/ /\ \E path \in EditorPaths : \E text \in TextsAt(path) :
          ChangeDocument(path, text)
     /\ UNCHANGED <<remapVars, composeVars, vlqVars, parseVars, builderVars, rewriteVars, diffVars, resolveVars, lookupVars, servedVars>>
  \/ /\ \E path \in Paths : GetScriptSnapshot(path)
     /\ UNCHANGED <<remapVars, composeVars, vlqVars, parseVars, builderVars, rewriteVars, diffVars, resolveVars, lookupVars, servedVars>>
  \/ /\ \E path \in Paths : GetMeta(path)
     /\ UNCHANGED <<remapVars, composeVars, vlqVars, parseVars, builderVars, rewriteVars, diffVars, resolveVars, lookupVars, servedVars>>
Spec == Init /\ [][Next]_vars

\* The host of a project with a plugin: the plugin's load is fulfilled at any
\* moment between the editor's and the TGT service's calls.
InitPlugin ==
  /\ PluginHostInit /\ RemapIdle /\ ComposeIdle /\ VlqIdle /\ ParseIdle
  /\ BuilderIdle /\ RewriteIdle /\ DiffIdle /\ ResolveIdle /\ LookupIdle
  /\ ServedIdle
NextPlugin ==
  \/ /\ LoadPlugin
     /\ UNCHANGED <<remapVars, composeVars, vlqVars, parseVars, builderVars, rewriteVars, diffVars, resolveVars, lookupVars, servedVars>>
  \/ /\ \E path \in PluginEditorPaths : \E text \in TextsAt(path) :
          \E version \in 1..MaxVersion : OpenDocument(path, text, version)
     /\ UNCHANGED <<remapVars, composeVars, vlqVars, parseVars, builderVars, rewriteVars, diffVars, resolveVars, lookupVars, servedVars>>
  \/ /\ \E path \in PluginEditorPaths : \E text \in TextsAt(path) :
          ChangeDocument(path, text)
     /\ UNCHANGED <<remapVars, composeVars, vlqVars, parseVars, builderVars, rewriteVars, diffVars, resolveVars, lookupVars, servedVars>>
  \/ /\ \E path \in PluginPaths : GetScriptSnapshot(path)
     /\ UNCHANGED <<remapVars, composeVars, vlqVars, parseVars, builderVars, rewriteVars, diffVars, resolveVars, lookupVars, servedVars>>
SpecPlugin == InitPlugin /\ [][NextPlugin]_vars

\* The host under the same calls, the TGT service asking the version of a
\* path after some of the snapshots it gets.
NextServed ==
  \/ /\ \E path \in EditorPaths : \E text \in TextsAt(path) :
          \E version \in 1..MaxVersion : OpenDocument(path, text, version)
     /\ UNCHANGED <<remapVars, composeVars, vlqVars, parseVars, builderVars, rewriteVars, diffVars, resolveVars, lookupVars, servedVars>>
  \/ /\ \E path \in EditorPaths : \E text \in TextsAt(path) :
          ChangeDocument(path, text)
     /\ UNCHANGED <<remapVars, composeVars, vlqVars, parseVars, builderVars, rewriteVars, diffVars, resolveVars, lookupVars, servedVars>>
  \/ /\ \E path \in Paths : GetScriptSnapshot(path)
     /\ UNCHANGED <<remapVars, composeVars, vlqVars, parseVars, builderVars, rewriteVars, diffVars, resolveVars, lookupVars, servedVars>>
  \/ /\ \E path \in Paths : ServeScriptSnapshot(path)
     /\ UNCHANGED <<remapVars, composeVars, vlqVars, parseVars, builderVars, rewriteVars, diffVars, resolveVars, lookupVars>>
  \/ /\ \E path \in Paths : GetMeta(path)
     /\ UNCHANGED <<remapVars, composeVars, vlqVars, parseVars, builderVars, rewriteVars, diffVars, resolveVars, lookupVars, servedVars>>
SpecServed == Init /\ [][NextServed]_vars

\* remapPosition on the maps and positions of the model.
InitRemap == RemapInit /\ HostIdle /\ ComposeIdle /\ VlqIdle /\ ParseIdle /\ BuilderIdle /\ RewriteIdle /\ DiffIdle /\ ResolveIdle /\ LookupIdle /\ ServedIdle
NextRemap == RemapPosition /\ UNCHANGED <<hostVars, composeVars, vlqVars, parseVars, builderVars, rewriteVars, diffVars, resolveVars, lookupVars, servedVars>>
SpecRemap == InitRemap /\ [][NextRemap]_vars

\* composeLines on the maps of the model.
InitCompose == ComposeInit /\ HostIdle /\ RemapIdle /\ VlqIdle /\ ParseIdle /\ BuilderIdle /\ RewriteIdle /\ DiffIdle /\ ResolveIdle /\ LookupIdle /\ ServedIdle
NextCompose == ComposeLines /\ UNCHANGED <<hostVars, remapVars, vlqVars, parseVars, builderVars, rewriteVars, diffVars, resolveVars, lookupVars, servedVars>>
SpecCompose == InitCompose /\ [][NextCompose]_vars

\* encodeVlq, turn by turn of its loop, and decodeVLQ on its result.
InitVlq == VlqInit /\ HostIdle /\ RemapIdle /\ ComposeIdle /\ ParseIdle /\ BuilderIdle /\ RewriteIdle /\ DiffIdle /\ ResolveIdle /\ LookupIdle /\ ServedIdle
NextVlq ==
  \/ EncodeVlqEnter /\ UNCHANGED <<hostVars, remapVars, composeVars, parseVars, builderVars, rewriteVars, diffVars, resolveVars, lookupVars, servedVars>>
  \/ EncodeVlqLoop /\ UNCHANGED <<hostVars, remapVars, composeVars, parseVars, builderVars, rewriteVars, diffVars, resolveVars, lookupVars, servedVars>>
  \/ EncodeVlqReturn /\ UNCHANGED <<hostVars, remapVars, composeVars, parseVars, builderVars, rewriteVars, diffVars, resolveVars, lookupVars, servedVars>>
  \/ DecodeVLQ /\ UNCHANGED <<hostVars, remapVars, composeVars, parseVars, builderVars, rewriteVars, diffVars, resolveVars, lookupVars, servedVars>>
SpecVlq == InitVlq /\ [][NextVlq]_vars
\* encodeVlq runs on: the call takes its next step whenever it has one.
EncodeVlqStep == EncodeVlqEnter \/ EncodeVlqLoop \/ EncodeVlqReturn
SpecVlqLive == InitVlq /\ [][NextVlq]_vars /\ WF_vlqVars(EncodeVlqStep)

\* parseWithLines on a document, renderMappings on the lines parsed and
\* parseWithLines on the string rendered.
InitParse == ParseInit /\ HostIdle /\ RemapIdle /\ ComposeIdle /\ VlqIdle /\ BuilderIdle /\ RewriteIdle /\ DiffIdle /\ ResolveIdle /\ LookupIdle /\ ServedIdle
NextParse ==
  \/ ParseWithLines /\ UNCHANGED <<hostVars, remapVars, composeVars, vlqVars, builderVars, rewriteVars, diffVars, resolveVars, lookupVars, servedVars>>
  \/ RenderMappings /\ UNCHANGED <<hostVars, remapVars, composeVars, vlqVars, builderVars, rewriteVars, diffVars, resolveVars, lookupVars, servedVars>>
  \/ ParseRendered /\ UNCHANGED <<hostVars, remapVars, composeVars, vlqVars, builderVars, rewriteVars, diffVars, resolveVars, lookupVars, servedVars>>
SpecParse == InitParse /\ [][NextParse]_vars

\* A map built by updateSourceMap calls.
InitBuilder ==
  /\ BuilderInit /\ HostIdle /\ RemapIdle /\ ComposeIdle /\ VlqIdle
  /\ ParseIdle /\ RewriteIdle /\ DiffIdle /\ ResolveIdle /\ LookupIdle /\ ServedIdle
NextBuilder ==
  /\ \E outputStr \in OutputStrs : \E inputPos \in InputPositions :
       \E colOffset \in {0, 1} :
         UpdateSourceMap(outputStr, inputPos, colOffset)
  /\ UNCHANGED <<hostVars, remapVars, composeVars, vlqVars, parseVars, rewriteVars, diffVars, resolveVars, lookupVars, servedVars>>
SpecBuilder == InitBuilder /\ [][NextBuilder]_vars

\* remap on code with and without an inline map comment, and on the code it
\* returned.
InitRewrite ==
  /\ RewriteInit /\ HostIdle /\ RemapIdle /\ ComposeIdle /\ VlqIdle
  /\ ParseIdle /\ BuilderIdle /\ DiffIdle /\ ResolveIdle /\ LookupIdle /\ ServedIdle
NextRewrite ==
  \/ Remap /\ UNCHANGED <<hostVars, remapVars, composeVars, vlqVars, parseVars, builderVars, diffVars, resolveVars, lookupVars, servedVars>>
  \/ NextStage /\ UNCHANGED <<hostVars, remapVars, composeVars, vlqVars, parseVars, builderVars, diffVars, resolveVars, lookupVars, servedVars>>
SpecRewrite == InitRewrite /\ [][NextRewrite]_vars

\* locationTable of an input, then lookupLineColumn of an offset.
InitLookup ==
  /\ LookupInit /\ HostIdle /\ RemapIdle /\ ComposeIdle /\ VlqIdle
  /\ ParseIdle /\ BuilderIdle /\ RewriteIdle /\ DiffIdle /\ ResolveIdle /\ ServedIdle
NextLookup ==
  \/ LocationTable /\ UNCHANGED <<hostVars, remapVars, composeVars, vlqVars, parseVars, builderVars, rewriteVars, diffVars, resolveVars, servedVars>>
  \/ LookupLineColumn /\ UNCHANGED <<hostVars, remapVars, composeVars, vlqVars, parseVars, builderVars, rewriteVars, diffVars, resolveVars, servedVars>>
SpecLookup == InitLookup /\ [][NextLookup]_vars

\* resolveModuleNames on one imported name.
InitResolve ==
  /\ ResolveInit /\ HostIdle /\ RemapIdle /\ ComposeIdle /\ VlqIdle
  /\ ParseIdle /\ BuilderIdle /\ RewriteIdle /\ DiffIdle /\ LookupIdle /\ ServedIdle
NextResolve ==
  ResolveModuleNames /\ UNCHANGED <<hostVars, remapVars, composeVars, vlqVars, parseVars, builderVars, rewriteVars, diffVars, lookupVars, servedVars>>
SpecResolve == InitResolve /\ [][NextResolve]_vars

\* getChangeRange on a snapshot, for an old snapshot.
InitDiff ==
  /\ DiffInit /\ HostIdle /\ RemapIdle /\ ComposeIdle /\ VlqIdle
  /\ ParseIdle /\ BuilderIdle /\ RewriteIdle /\ ResolveIdle /\ LookupIdle /\ ServedIdle
NextDiff ==
  \/ GetChangeRangeFirst /\ UNCHANGED <<hostVars, remapVars, composeVars, vlqVars, parseVars, builderVars, rewriteVars, resolveVars, lookupVars, servedVars>>
  \/ GetChangeRangeAgain /\ UNCHANGED <<hostVars, remapVars, composeVars, vlqVars, parseVars, builderVars, rewriteVars, resolveVars, lookupVars, servedVars>>
SpecDiff == InitDiff /\ [][NextDiff]_vars

(***************************************************************************)
(* Host: claims.                                                           *)
(***************************************************************************)
\* A step of the specification that is a call of addOrUpdateDocument for
\* path with a document of the given text.
AddOrUpdateStep(path, text) ==
  \/ ChangeDocument(path, text)
  \/ \E version \in 1..MaxVersion : OpenDocument(path, text, version)

\* The text getScriptSnapshot(path) returns when called in the current state,
\* "<none>" if it returns no snapshot.
SnapshotText(path) ==
  LET r == getOrCreatePathSnapshot(HostState, getCanonicalFileName(path))
  IN IF r.snapshot = <<>> THEN "<none>" ELSE r.snapshot[1].text

\* C1 (as claimed): after every addOrUpdateDocument(d) for the transpilable
\* path, the document versions having risen with each update, the very next
\* getScriptSnapshot(mirror path) returns a snapshot whose text is
\* compile(d.text).code, for every text d.text that compiles, the empty one
\* included.
C1_CacheCoherence ==
  [][\A text \in Texts :
       (/\ AddOrUpdateStep(SrcPath, text)
        /\ rising'[SrcPath]
        /\ compile(SrcPath, text).kind = "ok")
       => SnapshotText(MirrorPath)' = compile(SrcPath, text).code]_vars

\* The mirror document's text and version as getScriptSnapshot finds them: a
\* mirror document that does not exist yet is created empty at version -1.
MirrorText(S) ==
  IF S.pathMap[MirrorPath] = NoDoc THEN ""
  ELSE S.docs[S.pathMap[MirrorPath]].text

MirrorVersion(S) ==
  IF S.pathMap[MirrorPath] = NoDoc THEN -1
  ELSE S.docs[S.pathMap[MirrorPath]].version

\* C2: in every reachable state, if getScriptSnapshot(mirror path) calls
\* compile and compile throws, then the snapshot returned has the mirror
\* document's previous text, which is the code of the last compile that
\* returned a result or "" if there was none, the mirror document's text and
\* version are unchanged, and a getMeta(source path) made next returns
\* metadata with fatal = true and the exception as its only parse error.
C2_FailurePreservesLastGood ==
  LET r == getOrCreatePathSnapshot(HostState, MirrorPath)
      result == compile(SrcPath, r.ran[1])
      m == getOrCreatePathSnapshot(r.S, getTranspiledPath(SrcPath))
      meta == m.S.fileMetaData[SrcPath]
  IN (r.ran # <<>> /\ result.kind = "throw") =>
       /\ r.snapshot = <<Snap(MirrorText(HostState))>>
       /\ MirrorText(HostState) =
            (IF lastGood = <<>> THEN "" ELSE lastGood[1].code)
       /\ MirrorText(r.S) = MirrorText(HostState)
       /\ MirrorVersion(r.S) = MirrorVersion(HostState)
       /\ m.ran = <<>>
       /\ meta # <<>>
       /\ meta[1].fatal = TRUE
       /\ meta[1].parseErrors = << <<result.error>> >>

\* C2 witness: compile has thrown on the text the editor holds, and the
\* snapshot served for the mirror path is the code of the earlier version.
C2_Witness ==
  /\ editor[SrcPath] > 0
  /\ docs[EditorDoc(SrcPath)].text = "!"
  /\ fileMetaData[SrcPath] # <<>>
  /\ fileMetaData[SrcPath][1].fatal = TRUE
  /\ lastGood # <<>>
  /\ lastGood[1].code = "A;"
  /\ snapshotMap[MirrorPath] = <<Snap("A;")>>

\* C3: in every reachable state and for every path, getScriptSnapshot
\* returns a snapshot and no exception leaves it (so a path that was served
\* a snapshot is never later served none).
C3_FailureIsolation ==
  \A path \in Paths :
    LET r == getOrCreatePathSnapshot(HostState, getCanonicalFileName(path))
    IN ~r.escaped /\ r.snapshot # <<>>

\* C3 witness: compile has thrown before anything was transpiled, and the
\* mirror path was served the empty snapshot.
C3_Witness ==
  /\ fileMetaData[SrcPath] # <<>>
  /\ fileMetaData[SrcPath][1].fatal = TRUE
  /\ lastGood = <<>>
  /\ snapshotMap[MirrorPath] = <<Snap("")>>

\* C4 (as claimed): once addOrUpdateDocument was called for the plain path,
\* getScriptSnapshot(path) returns the text of the document passed to the
\* most recent call.
C4_PlainOrdering ==
  editor[PlainPath] > 0 =>
    SnapshotText(PlainPath) = docs[EditorDoc(PlainPath)].text

\* A step of the specification that is a call of addOrUpdateDocument: the
\* editor has created a document for some path or changed the one it holds,
\* which it does just before the call and at no other time.
AddOrUpdateCalled ==
  \E path \in EditorPaths :
    \/ editor'[path] # editor[path]
    \/ /\ editor[path] > 0
       /\ docs'[EditorDoc(path)].version # docs[EditorDoc(path)].version

\* C5: projectVersion never decreases, and every addOrUpdateDocument call,
\* for the transpilable path and for the plain path, increases it.
C5_ProjectVersionIncreases ==
  [][/\ projectVersion' >= projectVersion
     /\ AddOrUpdateCalled => projectVersion' > projectVersion]_vars

\* C5 witness: addOrUpdateDocument was called for both kinds of path.
C5_Witness ==
  /\ editor[SrcPath] > 0
  /\ editor[PlainPath] > 0
  /\ projectVersion >= 2

\* number.toString() of the versions of the model, written out.
Decimal(n) ==
  CASE n = -1 -> "-1" [] n = 0 -> "0" [] n = 1 -> "1" [] n = 2 -> "2"
    [] n = 3 -> "3" [] n = 4 -> "4" [] n = 5 -> "5" [] OTHER -> "?"

\* C6 (as claimed): getScriptVersion(path) is the decimal string of the
\* version of the editor document most recently passed to
\* addOrUpdateDocument for path, and "0" for every path that has no editor
\* document, the mirror path included.
C6_ScriptVersion ==
  \A path \in Paths :
    getScriptVersion(path) =
      IF path \in EditorPaths /\ editor[path] > 0
      THEN Decimal(docs[EditorDoc(path)].version)
      ELSE "0"

\* C6 (amended): getScriptVersion(path) is the decimal string of the version
\* of the document held in pathMap for path: for the transpilable path the
\* editor document most recently passed to addOrUpdateDocument, for the
\* plain path the first editor document passed for it, for the mirror path
\* the document the host created, whose version is -1 until a compile has
\* returned a result and then the source version of the last such compile;
\* it is "0" for a path that has no document.
C6_ScriptVersionAmended ==
  /\ getScriptVersion(SrcPath) =
       (IF editor[SrcPath] > 0 THEN Decimal(docs[EditorDoc(SrcPath)].version)
        ELSE "0")
  /\ getScriptVersion(PlainPath) =
       (IF editor[PlainPath] > 0 THEN Decimal(docs[<<PlainPath, 1>>].version)
        ELSE "0")
  /\ getScriptVersion(MirrorPath) =
       (IF MirrorPath \notin scriptFileNames THEN "0"
        ELSE IF lastGood = <<>> THEN "-1"
        ELSE Decimal(lastGood[1].version))

\* C6 witness: the mirror document has the version of the source that was
\* transpiled last, and the plain path holds its first document although the
\* editor has passed a second one.
C6_Witness ==
  /\ lastGood # <<>>
  /\ lastGood[1].version = 2
  /\ getScriptVersion(MirrorPath) = "2"
  /\ editor[PlainPath] = 2
  /\ getScriptVersion(PlainPath) = "1"
  /\ docs[EditorDoc(PlainPath)].version = 2


\* C14: no transpilable path registered through addOrUpdateDocument is in
\* getScriptFileNames(), and its mirror path is, from the first such call
\* on.
C14_OnlyMirrorVisible ==
  /\ SrcPath \notin scriptFileNames
  /\ editor[SrcPath] > 0 => MirrorPath \in scriptFileNames

\* C14 witness: the source was registered and transpiled, and a plain
\* document registered as well.
C14_Witness ==
  /\ editor[SrcPath] > 0
  /\ lastGood # <<>>
  /\ scriptFileNames = {MirrorPath, PlainPath}

\* C15 (as claimed): every snapshot held in the snapshot cache for the
\* mirror path has transpiledDoc.version >= sourceDoc.version.
C15_SnapshotValid ==
  (snapshotMap[MirrorPath] # <<>> /\ pathMap[SrcPath] # NoDoc) =>
    docs[pathMap[MirrorPath]].version >= docs[pathMap[SrcPath]].version

\* C15 (amended): a snapshot held in the snapshot cache for the mirror path
\* has the mirror document's text, and transpiledDoc.version >=
\* sourceDoc.version unless the source document's text is empty or compile
\* throws or returns nothing on it.
C15_SnapshotValidAmended ==
  (snapshotMap[MirrorPath] # <<>> /\ pathMap[SrcPath] # NoDoc) =>
    LET src == docs[pathMap[SrcPath]]
        mirror == docs[pathMap[MirrorPath]]
    IN /\ snapshotMap[MirrorPath] = <<Snap(mirror.text)>>
       /\ \/ mirror.version >= src.version
          \/ src.text = ""
          \/ compile(SrcPath, src.text).kind # "ok"

\* C15 witness: the snapshot cached is that of the last good code, below the
\* version of the source, on which compile threw.
C15_Witness ==
  /\ snapshotMap[MirrorPath] = <<Snap("A;")>>
  /\ pathMap[SrcPath] # NoDoc
  /\ docs[pathMap[SrcPath]].text = "!"
  /\ docs[pathMap[MirrorPath]].version < docs[pathMap[SrcPath]].version

\* C16: in every state in which a transpilation of the source path has
\* succeeded, the metadata's sourcemapLines is the map the latest successful
\* transpilation returned.
C16_MetaKeepsLastGoodMap ==
  lastGood # <<>> =>
    /\ fileMetaData[SrcPath] # <<>>
    /\ fileMetaData[SrcPath][1].sourcemapLines = <<lastGood[1].sourceMap>>

\* C17 (as claimed): when the transpilable path is in the document registry,
\* its companion path has an entry in the snapshot cache.
C17_Companion ==
  pathMap[SrcPath] # NoDoc => snapshotMap[MirrorPath] # <<>>

\* C17 (amended): when the transpilable path is in the document registry,
\* its companion path has a document in the registry and is in the file
\* list; an entry it has in the snapshot cache is the snapshot of that
\* document's text.
C17_CompanionAmended ==
  pathMap[SrcPath] # NoDoc =>
    /\ pathMap[MirrorPath] = HostDoc(MirrorPath)
    /\ MirrorPath \in scriptFileNames
    /\ snapshotMap[MirrorPath] # <<>> =>
         snapshotMap[MirrorPath] = <<Snap(docs[pathMap[MirrorPath]].text)>>

\* C17 witness: the source was registered again after its mirror was
\* served, and the companion has no entry in the snapshot cache.
C17_Witness ==
  /\ pathMap[SrcPath] # NoDoc
  /\ lastGood # <<>>
  /\ pathMap[MirrorPath] = HostDoc(MirrorPath)
  /\ snapshotMap[MirrorPath] = <<>>

\* The host state after getMeta(path) in the host state S.
AfterGetMeta(S, path) ==
  getOrCreatePathSnapshot(S, getTranspiledPath(path)).S

\* C18: of two getScriptSnapshot calls for a path with no
\* addOrUpdateDocument between them, with or without a getMeta call between
\* them, the second finds the entry the first left in the snapshot cache,
\* returns it, does not call compile and changes nothing.
C18_CacheHit ==
  \A path \in Paths :
    LET first == getOrCreatePathSnapshot(HostState,
                                         getCanonicalFileName(path))
    IN \A S \in {first.S} \cup {AfterGetMeta(first.S, q) : q \in Paths} :
         LET second == getOrCreatePathSnapshot(S, getCanonicalFileName(path))
         IN /\ first.S.snapshotMap[path] # <<>>
            /\ S.snapshotMap[path] = first.S.snapshotMap[path]
            /\ second.snapshot = first.S.snapshotMap[path]
            /\ second.ran = <<>>
            /\ second.S = S

\* C18 witness: the mirror path's snapshot is in the cache after a compile
\* of the source the editor holds.
C18_Witness ==
  /\ editor[SrcPath] > 0
  /\ docs[EditorDoc(SrcPath)].text = "b"
  /\ snapshotMap[MirrorPath] = <<Snap("B;")>>
  /\ fileMetaData[SrcPath] # <<>>

\* C29: across every single host operation, if the set returned by
\* getScriptFileNames() differs before and after the operation, then
\* getProjectVersion() differs as well.
C29_FileListSignalled ==
  [][scriptFileNames' # scriptFileNames =>
       NumberToString(projectVersion') # NumberToString(projectVersion)]_vars

\* C30: for every path, if two getScriptSnapshot(path) calls return
\* snapshots with different texts, then getScriptVersion(path) evaluated
\* right after the first call differs from getScriptVersion(path) evaluated
\* right after the second call.
C30_VersionCoherence ==
  \A p \in Paths : \A x, y \in served[p] : x[1] # y[1] => x[2] # y[2]

\* C31: for every interleaving of plugin loads that register a transpiler
\* for an extension with addOrUpdateDocument and getScriptSnapshot calls,
\* getScriptFileNames() never contains a path whose last extension is a
\* currently registered transpiler source extension.
C31_NoSourceListed ==
  \A path \in scriptFileNames :
    getExtensionFromPath(path) \notin DOMAIN transpilers

(***************************************************************************)
(* Source maps: claims.                                                    *)
(***************************************************************************)
\* The absolute generated column of segment j of a line: the sum of the
\* deltas up to it.
RECURSIVE AbsCol(_, _)
AbsCol(line, j) == IF j = 0 THEN 0 ELSE AbsCol(line, j - 1) + line[j][1]

IsMapped(seg) == Len(seg) \in {4, 5}

\* The mapped segments of line L of a map anchored at column C.
AnchorsAt(m, L, C) ==
  IF L + 1 \notin DOMAIN m THEN {}
  ELSE {j \in DOMAIN m[L + 1] :
          IsMapped(m[L + 1][j]) /\ AbsCol(m[L + 1], j) = C}

\* C7: remapPosition((L, C), mapLines) returns none when no mapped segment
\* of line L has absolute generated column C, and a position it returns is
\* the (srcLine, srcCol) of a mapped segment whose absolute generated column
\* is C.
C7_InexactRemapRejected ==
  remapped # <<>> =>
    LET anchors == AnchorsAt(mapLines, position[1], position[2])
        line == mapLines[position[1] + 1]
    IN /\ anchors = {} => remapped[1] = <<>>
       /\ remapped[1] # <<>> =>
            \E j \in anchors : remapped[1] = <<line[j][3], line[j][4]>>

\* A column strictly between two adjacent mapped anchors was looked up.
C7_Witness ==
  /\ remapped = << <<>> >>
  /\ position[1] + 1 \in DOMAIN mapLines
  /\ LET line == mapLines[position[1] + 1]
     IN \E j \in DOMAIN line :
          /\ j + 1 \in DOMAIN line
          /\ IsMapped(line[j]) /\ IsMapped(line[j + 1])
          /\ AbsCol(line, j) < position[2]
          /\ position[2] < AbsCol(line, j + 1)

\* C8: when some mapped segment (arity 4 or 5) of line L has absolute
\* generated column C, remapPosition((L, C), mapLines) returns the
\* (srcLine, srcCol) of a mapped segment anchored at column C.
C8_ExactRemapComplete ==
  remapped # <<>> =>
    LET anchors == AnchorsAt(mapLines, position[1], position[2])
        line == mapLines[position[1] + 1]
    IN anchors # {} =>
         \E j \in anchors : remapped[1] = <<line[j][3], line[j][4]>>

\* C9: composeLines(upstream, downstream) returns, line by line and segment
\* by segment, the downstream segment if it is unmapped, the segment with
\* its source position replaced by remapPosition's result and everything
\* else kept if that is a position, and the unmapped segment with the same
\* genColDelta if it is none; so the number of lines, the number of segments
\* of each line and every absolute generated column are those of downstream.
C9_ComposeStructure ==
  composedLines # <<>> =>
    LET r == composedLines[1]
    IN /\ Len(r) = Len(downstreamLines)
       /\ \A i \in DOMAIN downstreamLines :
            /\ Len(r[i]) = Len(downstreamLines[i])
            /\ \A j \in DOMAIN downstreamLines[i] :
                 LET e == downstreamLines[i][j]
                     srcPos == remapPosition(<<e[3], e[4]>>, upstreamMapping)
                 IN /\ AbsCol(r[i], j) = AbsCol(downstreamLines[i], j)
                    /\ Len(e) = 1 => r[i][j] = e
                    /\ Len(e) > 1 /\ srcPos = <<>> => r[i][j] = <<e[1]>>
                    /\ Len(e) > 1 /\ srcPos # <<>> =>
                         /\ Len(r[i][j]) = Len(e)
                         /\ r[i][j][1] = e[1]
                         /\ r[i][j][2] = e[2]
                         /\ <<r[i][j][3], r[i][j][4]>> = srcPos
                         /\ Len(e) = 5 => r[i][j][5] = e[5]

\* A composition that remapped a named segment and downgraded a mapped one
\* with a positive genColDelta.
C9_Witness ==
  /\ composedLines # <<>>
  /\ \E i \in DOMAIN downstreamLines : \E j \in DOMAIN downstreamLines[i] :
       /\ Len(downstreamLines[i][j]) = 5
       /\ Len(composedLines[1][i][j]) = 5
  /\ \E i \in DOMAIN downstreamLines : \E j \in DOMAIN downstreamLines[i] :
       /\ Len(downstreamLines[i][j]) >= 4
       /\ composedLines[1][i][j] = <<2>>

\* The positions <<line, column>> of the segments of 4 or 5 integers of a
\* map.
MappedAnchors(m) ==
  UNION {{<<i - 1, AbsCol(m[i], j)>> :
            j \in {k \in DOMAIN m[i] : IsMapped(m[i][k])}} : i \in DOMAIN m}

\* C21: with A the upstream map and B the downstream one, for every anchor x
\* mapped by B for which remapPosition(x, B) is a position that is an anchor
\* mapped by A, remapPosition(x, composeLines(A, B)) is
\* remapPosition(remapPosition(x, B), A).
C21_ComposeAgrees ==
  composedLines # <<>> =>
    \A x \in MappedAnchors(downstreamLines) :
      LET image == remapPosition(x, downstreamLines)
      IN (image # <<>> /\ image \in MappedAnchors(upstreamMapping)) =>
           remapPosition(x, composedLines[1]) =
             remapPosition(image, upstreamMapping)

\* A composition where both sides are a position of the source: an anchor of
\* the downstream map lands on an anchor of the upstream map that
\* remapPosition maps, and the position in the source is not the one in the
\* middle.
C21_Witness ==
  /\ composedLines # <<>>
  /\ \E x \in MappedAnchors(downstreamLines) :
       LET image == remapPosition(x, downstreamLines)
       IN /\ image # <<>>
          /\ image \in MappedAnchors(upstreamMapping)
          /\ remapPosition(image, upstreamMapping) # <<>>
          /\ remapPosition(image, upstreamMapping) # image
          /\ remapPosition(x, composedLines[1]) =
               remapPosition(image, upstreamMapping)

(***************************************************************************)
(* Base64 VLQ: claims.                                                     *)
(***************************************************************************)
\* C10: for every integer v in [-2^31, 2^31), decodeVLQ(encodeVlq(v)) is the
\* one-element segment [v].
C10_VlqRoundTrip ==
  vlqPc = "decoded" => vlqDecoded = [error |-> "", result |-> <<vlqValue>>]

\* The digits of n, least significant first, in base 32: every digit but
\* the last with the continuation bit 32.
RECURSIVE StandardDigits(_)
StandardDigits(n) ==
  IF n < 32 THEN <<n>> ELSE <<32 + (n % 32)>> \o StandardDigits(n \div 32)

\* The standard base64 VLQ of v in [-2^31, 2^31): the digits of 2 * |v| +
\* sign, the first digit being 2 * (|v| % 16) + sign and the others those of
\* |v| \div 16, each written with the alphabet A-Z a-z 0-9 + /.
StandardVlq(v) ==
  LET low == IF v = MinInt32 THEN 0 ELSE (IF v < 0 THEN -v ELSE v) % 16
      high == IF v = MinInt32 THEN 2 ^ 27
              ELSE (IF v < 0 THEN -v ELSE v) \div 16
      first == 2 * low + (IF v < 0 THEN 1 ELSE 0)
      digits == IF high = 0 THEN <<first>>
                ELSE <<32 + first>> \o StandardDigits(high)
  IN [k \in 1..Len(digits) |-> BASE64_CHARS[digits[k] + 1]]

\* C20 (as claimed): encodeVlq(v) returns the standard base64 VLQ of v, for
\* every v in [-2^31, 2^31): "A" for 0, "C" for 1, "D" for -1, "gB" for 16.
C20_StandardVlq ==
  /\ StandardVlq(0) = <<65>>
  /\ StandardVlq(1) = <<67>>
  /\ StandardVlq(-1) = <<68>>
  /\ StandardVlq(16) = <<103, 66>>
  /\ vlqPc \in {"returned", "decoded"} => answer = StandardVlq(vlqValue)

\* C27: encodeVlq terminates and returns a non-empty string for every
\* integer input in [-2^31, 2^31), the shifts being 32-bit signed.
C27_Terminates == <>(vlqPc = "returned" /\ answer # <<>>)

(***************************************************************************)
(* Source maps, serialized form: claims.                                   *)
(***************************************************************************)
\* C11: for every document whose segments have arity 1, 4 or 5, parsing the
\* string renderMappings gives for the lines of parseWithLines yields lines
\* equal to those of the first parse.
C11_MapRoundTrip ==
  parsePc = "reparsed" =>
    reparsed.error = "" /\ reparsed.lines = parsed.lines

\* The value of a character in the base64 alphabet, 255 for another
\* character.
Base64Value(c) ==
  IF c \in 65..90 THEN c - 65
  ELSE IF c \in 97..122 THEN c - 97 + 26
  ELSE IF c \in 48..57 THEN c - 48 + 52
  ELSE IF c = 43 THEN 62
  ELSE IF c = 47 THEN 63
  ELSE 255

\* A segment that is not one of a map document: a character outside the
\* alphabet, a last character with the continuation bit, or a number of
\* integers (one for each character without the continuation bit) other
\* than 1, 4 or 5.
MalformedSegment(seg) ==
  \/ \E k \in DOMAIN seg : Base64Value(seg[k]) = 255
  \/ Len(seg) > 0 /\ Base64Value(seg[Len(seg)]) >= 32
  \/ Cardinality({k \in DOMAIN seg : Base64Value(seg[k]) < 32})
       \notin {1, 4, 5}

\* The segments of a mappings string: those of its lines that are not
\* empty.
SegmentsOf(str) ==
  UNION {{Split(l, Comma)[k] : k \in DOMAIN Split(l, Comma)} :
         l \in {Split(str, Semicolon)[i] :
                  i \in DOMAIN Split(str, Semicolon)} \ {<<>>}}

\* C13: parseWithLines raises an error and returns no parsed map whenever
\* some segment of the mappings string has a character outside the base64
\* alphabet, ends in an unterminated continuation, or decodes to a number of
\* integers other than 1, 4 or 5, an empty segment between commas included.
C13_MalformedRejected ==
  (parsePc # "parse" /\ \E seg \in SegmentsOf(mappings) : MalformedSegment(seg))
    => parsed.error # "" /\ parsed.lines = <<>> /\ parsePc = "failed"

\* A document with an empty segment between commas was refused.
C13_Witness ==
  /\ parsePc = "failed"
  /\ mappings = <<65, 65, 65, 65, 44, 44, 65, 65, 65, 65>>
  /\ parsed.error = "Unknown source map entry"

(***************************************************************************)
(* Source maps, the builder: claims.                                       *)
(***************************************************************************)
\* C12: after any sequence of updateSourceMap calls, parsing the output of
\* renderMappings yields as many lines as the builder has, with as many
\* segments on each line, and a mapped segment of the builder comes back
\* with the same absolute (srcLine, srcCol).
C12_BuilderSerializer ==
  LET r == parseWithLines(renderMappings(builder.lines))
  IN /\ r.error = ""
     /\ Len(r.lines) = Len(builder.lines)
     /\ \A i \in DOMAIN builder.lines :
          /\ Len(r.lines[i]) = Len(builder.lines[i])
          /\ \A j \in DOMAIN builder.lines[i] :
               Len(builder.lines[i][j]) = 4 =>
                 /\ Len(r.lines[i][j]) = 4
                 /\ r.lines[i][j][3] = builder.lines[i][j][3]
                 /\ r.lines[i][j][4] = builder.lines[i][j][4]

\* update("ab", 0) and update("a\nb", 4) over "ab\ncd": two mapped segments
\* on the first line, one on the second with a smaller source column, and
\* the rendering "AAAA,EACC;AACD".
C12_Witness ==
  /\ builder.lines = << << <<0, 0, 0, 0>>, <<2, 0, 1, 1>> >>,
                        << <<0, 0, 2, 0>> >> >>
  /\ renderMappings(builder.lines) =
       <<65, 65, 65, 65, 44, 69, 65, 67, 67, 59, 65, 65, 67, 68>>

\* the number of lines of a text, each of "\r\n", "\r" and "\n" ending
\* exactly one line
lineCount(text) ==
  1 + Cardinality({p \in 1..Len(text) :
                     \/ text[p] = LF
                     \/ text[p] = CR /\ (p = Len(text) \/ text[p + 1] # LF)})

\* C24: after any sequence of updateSourceMap calls, the number of lines in
\* the builder's map equals the number of lines of the concatenation of all
\* output chunks, also when a "\r\n" pair is split across two chunks.
C24_LineCount == Len(builder.lines) = lineCount(output)

\* the number of characters of a text after its last "\r" or "\n"
lastLineLength(text) ==
  LET ends == {p \in 1..Len(text) : text[p] \in {LF, CR}}
  IN IF ends = {} THEN Len(text)
     ELSE Len(text) - (CHOOSE p \in ends : \A q \in ends : q <= p)

\* the running sum of genColDelta over the first j segments of a map line
RECURSIVE genColumn(_, _)
genColumn(mapLine, j) ==
  IF j = 0 THEN 0 ELSE genColumn(mapLine, j - 1) + mapLine[j][1]

\* the segments of map line k that an updateSourceMap call has added
addedSegments(before, after, k) ==
  IF k \in DOMAIN before THEN (Len(before[k]) + 1)..Len(after[k])
  ELSE DOMAIN after[k]

\* C25: after any updateSourceMap call, on every line of the builder's map
\* each genColDelta is non-negative, and the running sum of genColDelta up
\* to and including a segment the call added equals the column at which the
\* fragment that produced it begins on that line: the length of the output's
\* last line before the call for the first fragment of the chunk, 0 for the
\* fragments after a line terminator.
C25_GenColumns ==
  [][updates' = updates + 1 =>
       \A k \in DOMAIN builder'.lines :
         /\ \A j \in DOMAIN builder'.lines[k] : builder'.lines[k][j][1] >= 0
         /\ \A j \in addedSegments(builder.lines, builder'.lines, k) :
              genColumn(builder'.lines[k], j) =
                IF k = builder.line + 1 THEN lastLineLength(output) ELSE 0]_vars

\* two calls have made a second line that begins with a segment at column
\* 0, and put a second segment on the first line, at a positive column
C25_Witness ==
  /\ updates = 2
  /\ Len(builder.lines) >= 2
  /\ Len(builder.lines[1]) >= 2
  /\ builder.lines[1][2][1] > 0
  /\ builder.lines[2] # <<>>

(***************************************************************************)
(* Source maps, remap: claims.                                             *)
(***************************************************************************)
\* A step that is a call of remap that returned.
RemapReturned == remaps' = remaps + 1 /\ remapPc' = "returned"

\* The code before the match of smRegexp, all of it if there is no match.
WithoutComment(code, match) ==
  IF match.found THEN SubSeq(code, 1, match.index - 1) ELSE code

\* returned is without, a line feed and one inline map comment, the last
\* line of returned, that holds the rendering of lines.
OneCommentOf(returned, without, lines) ==
  /\ SubSeq(returned, 1, Len(without)) = without
  /\ smRegexp(returned).found
  /\ smRegexp(returned).index = Len(without) + 1
  /\ returned[Len(without) + 1] = LF
  /\ jsonParseMappings(base64Decode(smRegexp(returned).sm)) =
       [error |-> "", mappings |-> renderMappings(lines)]
  /\ Cardinality({i \in (Len(without) + 1)..Len(returned) :
                    StartsWithAt(returned, i, CommentStart)}) = 1

\* What C19 says of a call of remap on code where smRegexp has the given
\* match, from the map before to the map after and the code returned.
RemapEffect(code, match, before, after, returned) ==
  /\ match.found =>
       /\ parseBase64(match.sm).error = ""
       /\ after.lines = composeLines(before.lines, parseBase64(match.sm).lines)
  /\ ~match.found => after.lines = before.lines
  /\ after.source = before.source
  /\ returned = WithoutComment(code, match) \o <<LF>>
                  \o comment(after, RemapSourcePath, RemapTargetPath)
  /\ OneCommentOf(returned, WithoutComment(code, match), after.lines)

\* C19 (as claimed): a call of remap that returns has replaced
\* upstreamMap.lines by composeLines(upstreamMap.lines, lines of the embedded
\* map) if smRegexp found a trailing inline map comment in the code, and has
\* left upstreamMap.lines unchanged if it found none; the code returned is the
\* input without that comment followed by a line feed and exactly one inline
\* map comment, rendered from upstreamMap as the call left it.
C19_RemapFrameEffect ==
  [][RemapReturned =>
       RemapEffect(codeWithSourceMap, smRegexp(codeWithSourceMap),
                   upstreamMap, upstreamMap', remappedCode'[1])]_vars

(***************************************************************************)
(* Host, snapshots' change ranges: claims.                                 *)
(***************************************************************************)
\* the length of the longest common prefix of two texts
prefixLen(O, N) ==
  LET common == {k \in 0..Len(O) : k <= Len(N) /\ SubSeq(O, 1, k) = SubSeq(N, 1, k)}
  IN CHOOSE k \in common : \A j \in common : j <= k

\* the length of the longest common suffix of two texts that does not
\* overlap their longest common prefix
suffixLen(O, N) ==
  LET p == prefixLen(O, N)
      common == {k \in 0..(Len(O) - p) :
                   /\ k <= Len(N) - p
                   /\ SubSeq(O, Len(O) - k + 1, Len(O))
                        = SubSeq(N, Len(N) - k + 1, Len(N))}
  IN CHOOSE k \in common : \A j \in common : j <= k

\* C22: for every pair of differing old and new texts, one being a prefix of
\* the other included, getChangeRange(oldSnapshot) on the new snapshot
\* returns start = prefixLen, length = oldLen - suffixLen - prefixLen and
\* newLength = newLen - prefixLen - suffixLen.
C22_ChangeRange ==
  (changeCalls > 0 /\ oldText # newText) =>
    changeRange =
      <<[start |-> prefixLen(oldText, newText),
         length |-> Len(oldText) - suffixLen(oldText, newText)
                      - prefixLen(oldText, newText),
         newLength |-> Len(newText) - prefixLen(oldText, newText)
                         - suffixLen(oldText, newText)]>>

\* the text a range makes of O, taking the replacement from N
applyRange(O, N, r) ==
  SubSeq(O, 1, r.start)
    \o SubSeq(N, r.start + 1, r.start + r.newLength)
    \o SubSeq(O, r.start + r.length + 1, Len(O))

\* C28: whenever getChangeRange returns a range (start, length, newLength)
\* for old text O and new text N, 0 <= start, 0 <= length,
\* start + length <= |O|, 0 <= newLength, start + newLength <= |N|, and
\* O[0, start) + N[start, start + newLength) + O[start + length, |O|) = N.
C28_RangeApplicable ==
  (changeCalls > 0 /\ changeRange # <<>>) =>
    LET r == changeRange[1]
    IN /\ 0 <= r.start
       /\ 0 <= r.length
       /\ r.start + r.length <= Len(oldText)
       /\ 0 <= r.newLength
       /\ r.start + r.newLength <= Len(newText)
       /\ applyRange(oldText, newText, r) = newText

\* the second call has returned, from the map, a range that replaces a
\* non-empty part of the old text by a part of another length
C28_Witness ==
  /\ changeCalls = 2
  /\ changeRange # <<>>
  /\ changeRange[1].length > 0
  /\ changeRange[1].length # changeRange[1].newLength
  /\ changeRange[1].start > 0

(***************************************************************************)
(* Host, module resolution: claims.                                        *)
(***************************************************************************)
\* the candidates of the path mappings for a name: for every pattern that
\* matches it and every replacement of the pattern whose substituted path
\* exists, the path and the length of the matched prefix or pattern
pathCandidates(settings, roots, name) ==
  IF settings.paths = <<>> THEN {}
  ELSE
    LET paths == settings.paths[1]
        wild(p) == p[Len(p)] = "*"
        prefixOf(p) == SubSeq(p, 1, Len(p) - 1)
        matches(p) == IF wild(p) THEN startsWith(name, prefixOf(p)) ELSE p = name
        tailOf(p) == IF wild(p) THEN SubSeq(name, Len(p), Len(name)) ELSE <<>>
        matched(p) == IF wild(p) THEN stringLength(prefixOf(p)) ELSE stringLength(p)
        candidatesOf(i) ==
          {[file |-> pathResolve(getPathsBase(settings),
                       replaceStar(paths[i].replacements[j],
                                   tailOf(paths[i].pattern))),
            length |-> matched(paths[i].pattern)] :
              j \in 1..Len(paths[i].replacements)}
    IN {c \in UNION {candidatesOf(i) :
                       i \in {k \in 1..Len(paths) : matches(paths[k].pattern)}} :
          sysExists(roots, c.file)}

\* C23: for a non-relative name whose last extension belongs to a transpiler
\* and which the native resolver does not resolve, if some path-mapping
\* pattern matches it (an exact pattern or a prefix-wildcard pattern, the
\* empty prefix included) and one of its substituted replacements exists,
\* resolveModuleNames returns resolvedFileName = candidate + targetExt with
\* extension = targetExt, for a candidate of the longest matched prefix or
\* pattern.
C23_PathMapping ==
  LET candidates == pathCandidates(compilationSettings, sysRoots, moduleName)
      target == transpilerDefinitions[getExtensionFromName(moduleName)]
  IN (/\ resolvePc = "returned"
      /\ ~tsResolves
      /\ ~isExternalModuleNameRelative(moduleName)
      /\ getExtensionFromName(moduleName) \in DOMAIN transpilerDefinitions
      /\ candidates # {}) =>
       \E c \in candidates :
         /\ \A d \in candidates : d.length <= c.length
         /\ resolution # <<>>
         /\ resolution[1].resolvedFileName = Append(c.file, target)
         /\ resolution[1].extension = target

(***************************************************************************)
(* Source maps, offset lookup: claims.                                     *)
(***************************************************************************)
\* the offsets at which a line terminator of the text ends: after a "\n",
\* and after a "\r" that no "\n" follows
terminatorEnds(text) ==
  {e \in 1..Len(text) :
     \/ text[e] = LF
     \/ text[e] = CR /\ (e = Len(text) \/ text[e + 1] # LF)}

\* C26: for table = locationTable(input) and 0 <= pos < length(input),
\* lookupLineColumn(table, pos) returns (l, pos - table[l-1]) with
\* table[-1] = 0, l being the smallest index with table[l] > pos; l is the
\* number of line terminators that end at or before pos, and the column is
\* in [0, length of line l including its terminator).
C26_OffsetLookup ==
  (lookupPc = "returned" /\ lookupPos < Len(lookupInput)) =>
    LET above == {k \in 0..(Len(lookupTable) - 1) : lookupTable[k + 1] > lookupPos}
        l == CHOOSE k \in above : \A j \in above : k <= j
        ends == terminatorEnds(lookupInput)
        before == {e \in ends : e <= lookupPos}
        after == {e \in ends : e > lookupPos} \cup {Len(lookupInput)}
        lineStart == IF before = {} THEN 0
                     ELSE CHOOSE e \in before : \A d \in before : d <= e
        lineEnd == CHOOSE e \in after : \A d \in after : e <= d
    IN /\ above # {}
       /\ lookupResult = <<l, lookupPos - (IF l = 0 THEN 0 ELSE lookupTable[l])>>
       /\ l = Cardinality(before)
       /\ lookupResult[2] = lookupPos - lineStart
       /\ 0 <= lookupResult[2]
       /\ lookupResult[2] < lineEnd - lineStart

\* the offset of the "\n" of a "\r\n" that ends a line after the first has
\* been looked up
C26_Witness ==
  /\ lookupPc = "returned"
  /\ 0 < lookupPos /\ lookupPos < Len(lookupInput)
  /\ lookupInput[lookupPos] = CR
  /\ lookupInput[lookupPos + 1] = LF
  /\ lookupResult[1] >= 1
  /\ lookupResult[2] >= 1

====
